---- MODULE Spec2Model ----
(***************************************************************************)
(* Model of the correction-LUT computation of COMPASS                       *)
(* (src/src/compass/utils/lut.py).                                          *)
(*                                                                         *)
(* Units.  All quantities are integers in fixed-point units:                *)
(*   times of the correction LUTs     nanoseconds                           *)
(*   ranges and tide displacements    nanometres                            *)
(*   geographic coordinates           millidegrees                          *)
(*   angles                           degrees (multiples of 90 only)        *)
(*   az_step                          milliseconds, rg_step metres          *)
(* A time of d ns is d * speed_of_light / 2 nm of range, so the             *)
(* conversion of the range LUT is exact in these units.  Floating-point     *)
(* rounding is not modelled.                                                *)
(***************************************************************************)
EXTENDS Integers, Sequences, FiniteSets, TLC

\* ------------------------------------------------------------------ bounds
\* Largest number of rows / columns of a LUT returned by the burst model.
MaxDim == 2
\* Largest number of nodes per axis of the small source grids on which the
\* resampling is applied on its own.
MaxNodes == 3
\* Largest number of SAFE files given to load_bursts.
MaxSafe == 2

\* ------------------------------------------------------- program constants
\* isce3.core.speed_of_light, metres per second
speed_of_light == 299792458
\* solid_earth_tides: margin = 0.1 degrees, in millidegrees
margin == 100
\* atr['LENGTH'], atr['WIDTH']
LENGTH == 25
WIDTH == 100
\* atr['X_STEP'], atr['Y_STEP'] = 0.023 degrees, in millidegrees
X_STEP == 23
Y_STEP == 23
\* compute_geocoding_correction_luts runs rdr2geo on steps ten times coarser
CoarseFactor == 10

\* Python's None (a value distinct from every string the program handles)
None == "<py None>"

\* ------------------------------------------------------------ numpy arrays
\* A 2-D array is a sequence of rows, each row a sequence of numbers.
Shape(a) == <<Len(a), Len(a[1])>>

MaxOf(x, y) == IF x >= y THEN x ELSE y
MinOf(x, y) == IF x <= y THEN x ELSE y

\* numpy broadcasting rule for two 2-D shapes
Broadcastable(s, t) ==
    \A i \in 1..2 : s[i] = t[i] \/ s[i] = 1 \/ t[i] = 1

BroadcastShape(s, t) == <<MaxOf(s[1], t[1]), MaxOf(s[2], t[2])>>

\* element (r, c) of a seen through broadcasting
At(a, r, c) ==
    a[IF Len(a) = 1 THEN 1 ELSE r][IF Len(a[1]) = 1 THEN 1 ELSE c]

\* a + b of numpy; the caller checks Broadcastable first
np_add(a, b) ==
    LET s == BroadcastShape(Shape(a), Shape(b))
    IN  [r \in 1..s[1] |-> [c \in 1..s[2] |-> At(a, r, c) + At(b, r, c)]]

\* a * k for a scalar k
np_scale(a, k) ==
    [r \in 1..Len(a) |-> [c \in 1..Len(a[1]) |-> a[r][c] * k]]

\* a * 0.5 (exact here: every product with speed_of_light is even)
np_half(a) ==
    [r \in 1..Len(a) |-> [c \in 1..Len(a[1]) |-> a[r][c] \div 2]]

\* -a
np_neg(a) ==
    [r \in 1..Len(a) |-> [c \in 1..Len(a[1]) |-> 0 - a[r][c]]]

\* np.array: the array object holding the elements of a
np_array(a) == a \o << >>

\* np.flipud of a 1-D or 2-D array: reverse the first axis
np_flipud(a) == np_array([i \in 1..Len(a) |-> a[Len(a) + 1 - i]])

\* The values of a 2-D array
Values(a) == {a[r][c] : r \in 1..Len(a), c \in 1..Len(a[1])}

SetMax(S) == CHOOSE x \in S : \A y \in S : y <= x
SetMin(S) == CHOOSE x \in S : \A y \in S : x <= y

\* np.flatten of a 2-D array (row-major) and reshape of a 1-D array to shape s
np_flatten(a) ==
    [k \in 1..(Len(a) * Len(a[1])) |->
        a[((k - 1) \div Len(a[1])) + 1][((k - 1) % Len(a[1])) + 1]]

np_reshape(v, s) ==
    [r \in 1..s[1] |-> [c \in 1..s[2] |-> v[(r - 1) * s[2] + c]]]

\* np.linspace(start, stop, num): node i (from 0) is start + i*(stop-start)/(num-1).
\* The vector is kept exact as numerators over the common denominator num-1.
np_linspace(start, stop, num) ==
    [den |-> num - 1,
     num |-> np_array([i \in 1..num |->
                (num - 1) * start + (i - 1) * (stop - start)])]

\* np.flipud of such a coordinate vector
flip_coords(v) == [den |-> v.den, num |-> np_flipud(v.num)]

\* ------------------------------------------------- isce3.core.LUT2d objects
LUT2d(x_start, y_start, x_spacing, y_spacing, data) ==
    [x_start |-> x_start, y_start |-> y_start,
     x_spacing |-> x_spacing, y_spacing |-> y_spacing, data |-> data]

\* The grid descriptor of a LUT: origin, spacing and shape
GridOf(lut) ==
    [x_start |-> lut.x_start, y_start |-> lut.y_start,
     x_spacing |-> lut.x_spacing, y_spacing |-> lut.y_spacing,
     shape |-> Shape(lut.data)]

\* --------------------------------- scipy RegularGridInterpolator (nearest)
StrictlyAscending(g) == \A i \in 1..(Len(g) - 1) : g[i] < g[i + 1]
StrictlyDescending(g) == \A i \in 1..(Len(g) - 1) : g[i] > g[i + 1]

\* Reverse the columns of a 2-D array (np.flip along axis 1)
np_fliplr(a) == [r \in 1..Len(a) |-> np_flipud(a[r])]

\* Index of the grid node nearest to x (x within the grid): the interval is
\* found with searchsorted, clipped, and the lower node wins a tie.
FindNearest(g, x) ==
    LET below == Cardinality({i \in 1..Len(g) : g[i] < x})
        i == MinOf(MaxOf(below, 1), Len(g) - 1)
    IN  IF 2 * (x - g[i]) <= g[i + 1] - g[i] THEN i ELSE i + 1

\* RGI(points, values, method='nearest', bounds_error=False, fill_value=0)
\* evaluated at the point (lat, lon) given in millidegrees.  A strictly
\* descending axis is accepted: the axis and the values are flipped together.
RGI_nearest(pts_src, values, lat, lon) ==
    LET latd == StrictlyDescending(pts_src[1].num)
        lond == StrictlyDescending(pts_src[2].num)
        glat == IF latd THEN np_flipud(pts_src[1].num) ELSE pts_src[1].num
        glon == IF lond THEN np_flipud(pts_src[2].num) ELSE pts_src[2].num
        v1 == IF latd THEN np_flipud(values) ELSE values
        v2 == IF lond THEN np_fliplr(v1) ELSE v1
        x == lat * pts_src[1].den
        y == lon * pts_src[2].den
    IN  IF \/ x < glat[1] \/ x > glat[Len(glat)]
           \/ y < glon[1] \/ y > glon[Len(glon)]
        THEN 0
        ELSE v2[FindNearest(glat, x)][FindNearest(glon, y)]

\* resample_set with the tide field left as the tide model returned it
resample_set_unflipped(geo_tide, pts_src, pts_dest) ==
    LET n == MaxOf(Len(pts_dest[1]), Len(pts_dest[2]))
        lat(k) == pts_dest[1][IF Len(pts_dest[1]) = 1 THEN 1 ELSE k]
        lon(k) == pts_dest[2][IF Len(pts_dest[2]) = 1 THEN 1 ELSE k]
    IN  [k \in 1..n |-> RGI_nearest(pts_src, geo_tide, lat(k), lon(k))]

\* resample_set with the points outside the grid given the value of the
\* nearest edge node (fill_value=None) instead of 0
resample_set_extrapolating(geo_tide, pts_src, pts_dest) ==
    LET flipped == np_flipud(geo_tide)
        n == MaxOf(Len(pts_dest[1]), Len(pts_dest[2]))
        lat(k) == pts_dest[1][IF Len(pts_dest[1]) = 1 THEN 1 ELSE k]
        lon(k) == pts_dest[2][IF Len(pts_dest[2]) = 1 THEN 1 ELSE k]
        lo(g) == MinOf(g.num[1], g.num[Len(g.num)]) \div g.den
        hi(g) == MaxOf(g.num[1], g.num[Len(g.num)]) \div g.den
        clip(g, x) == MinOf(MaxOf(x, lo(g) + 1), hi(g) - 1)
    IN  [k \in 1..n |-> RGI_nearest(pts_src, flipped, clip(pts_src[1], lat(k)),
                                   clip(pts_src[2], lon(k)))]

\* resample_set(geo_tide, pts_src, pts_dest): pts_dest is the pair of the
\* flattened latitudes and longitudes, which the interpolator broadcasts
\* against each other; the result is the flat vector.
resample_set(geo_tide, pts_src, pts_dest) ==
    LET flipped == np_flipud(geo_tide)
        n == MaxOf(Len(pts_dest[1]), Len(pts_dest[2]))
        lat(k) == pts_dest[1][IF Len(pts_dest[1]) = 1 THEN 1 ELSE k]
        lon(k) == pts_dest[2][IF Len(pts_dest[2]) = 1 THEN 1 ELSE k]
    IN  [k \in 1..n |-> RGI_nearest(pts_src, flipped, lat(k), lon(k))]

\* ------------------------------------------ ENU to radar (geometry_utils)
\* sine and cosine of an angle in degrees that is a multiple of 90
SinDeg(a) ==
    LET m == a % 360
    IN  IF m = 90 THEN 1 ELSE IF m = 270 THEN 0 - 1 ELSE 0

CosDeg(a) == SinDeg(a + 90)

\* The shape three arrays broadcast to
BroadcastShape3(a, b, c) ==
    BroadcastShape(BroadcastShape(Shape(a), Shape(b)), Shape(c))

\* enu2los(e, n, u, inc_angle, az_angle=...) elementwise, with broadcasting
enu2los(e, n, u, inc_angle, az_angle) ==
    LET s == BroadcastShape3(e, inc_angle, az_angle)
    IN  [r \in 1..s[1] |-> [c \in 1..s[2] |->
            (0 - At(e, r, c)) * SinDeg(At(inc_angle, r, c))
                              * SinDeg(At(az_angle, r, c))
            + At(n, r, c) * SinDeg(At(inc_angle, r, c))
                          * CosDeg(At(az_angle, r, c))
            + At(u, r, c) * CosDeg(At(inc_angle, r, c))]]

\* en2az(e, n, orb_az_angle) elementwise, with broadcasting
en2az(e, n, orb_az_angle) ==
    LET s == BroadcastShape(Shape(e), Shape(orb_az_angle))
    IN  [r \in 1..s[1] |-> [c \in 1..s[2] |->
            (0 - At(e, r, c)) * SinDeg(At(orb_az_angle, r, c))
            + At(n, r, c) * CosDeg(At(orb_az_angle, r, c))]]

\* array + scalar
np_shift(a, k) ==
    [r \in 1..Len(a) |-> [c \in 1..Len(a[1]) |-> a[r][c] + k]]

\* ------------------------------------------------------ solid_earth_tides
\* shapely's polygon.bounds: (minx, miny, maxx, maxy) of a sequence of
\* <<lon, lat>> points
bounds(poly) ==
    LET xs == {poly[i][1] : i \in 1..Len(poly)}
        ys == {poly[i][2] : i \in 1..Len(poly)}
    IN  <<SetMin(xs), SetMin(ys), SetMax(xs), SetMax(ys)>>

\* The grid descriptor handed to pysolid
tide_atr_margin_added(burst) ==
    LET b == bounds(burst.border[1])
    IN  [LENGTH |-> LENGTH, WIDTH |-> WIDTH,
         X_FIRST |-> b[1] + margin, Y_FIRST |-> b[2] + margin,
         X_STEP |-> X_STEP, Y_STEP |-> Y_STEP]

tide_atr(burst) ==
    LET b == bounds(burst.border[1])
        lon_min == b[1]
        lat_min == b[2]
        lat_start == lat_min - margin
        lon_start == lon_min - margin
    IN  [LENGTH |-> LENGTH, WIDTH |-> WIDTH,
         X_FIRST |-> lon_start, Y_FIRST |-> lat_start,
         X_STEP |-> X_STEP, Y_STEP |-> Y_STEP]

\* The source-grid coordinate vectors built with np.linspace
lat_geo_array(burst) ==
    LET atr == tide_atr(burst)
        lat_start == bounds(burst.border[1])[2] - margin
    IN  np_linspace(atr.Y_FIRST, lat_start + atr.Y_STEP * atr.LENGTH, atr.LENGTH)

lon_geo_array(burst) ==
    LET atr == tide_atr(burst)
        lon_start == bounds(burst.border[1])[1] - margin
    IN  np_linspace(atr.X_FIRST, lon_start + atr.X_STEP * atr.WIDTH, atr.WIDTH)

\* Whether the arrays read from the rasters fit together in
\* solid_earth_tides: the interpolated points must be as many as the cells
\* of the latitude array (reshape), and the angles must broadcast with it
\* (ValueError otherwise)
tide_shapes_fit(lat_radar_grid, lon_radar_grid, inc_angle, head_angle) ==
    LET nlat == Len(np_flatten(lat_radar_grid))
        nlon == Len(np_flatten(lon_radar_grid))
    IN  /\ nlon = nlat \/ nlon = 1
        /\ Broadcastable(Shape(lat_radar_grid), Shape(inc_angle))
        /\ Broadcastable(Shape(lat_radar_grid), Shape(head_angle))
        /\ Broadcastable(Shape(inc_angle), Shape(head_angle))

\* solid_earth_tides with the incidence and azimuth angles handed to
\* enu2los in each other's place
solid_earth_tides_angles_swapped(burst, set_enu, lat_radar_grid, lon_radar_grid, inc_angle, head_angle) ==
    LET pts_src == <<flip_coords(lat_geo_array(burst)), lon_geo_array(burst)>>
        pts_dst == <<np_flatten(lat_radar_grid), np_flatten(lon_radar_grid)>>
        shp == Shape(lat_radar_grid)
        rdr_set_e == np_reshape(resample_set(set_enu.e, pts_src, pts_dst), shp)
        rdr_set_n == np_reshape(resample_set(set_enu.n, pts_src, pts_dst), shp)
        rdr_set_u == np_reshape(resample_set(set_enu.u, pts_src, pts_dst), shp)
        set_rg == enu2los(rdr_set_e, rdr_set_n, rdr_set_u,
                          np_shift(head_angle, 90), inc_angle)
        set_az == en2az(rdr_set_e, rdr_set_n, np_shift(head_angle, 0 - 90))
    IN  <<set_rg, set_az>>

\* The part of solid_earth_tides after the tide model has returned
\* set_enu = [e, n, u]: resampling to the radar grid and ENU conversion.
\* Returns <<set_rg, set_az>>.
solid_earth_tides(burst, set_enu, lat_radar_grid, lon_radar_grid, inc_angle, head_angle) ==
    LET pts_src == <<flip_coords(lat_geo_array(burst)), lon_geo_array(burst)>>
        pts_dst == <<np_flatten(lat_radar_grid), np_flatten(lon_radar_grid)>>
        shp == Shape(lat_radar_grid)
        rdr_set_e == np_reshape(resample_set(set_enu.e, pts_src, pts_dst), shp)
        rdr_set_n == np_reshape(resample_set(set_enu.n, pts_src, pts_dst), shp)
        rdr_set_u == np_reshape(resample_set(set_enu.u, pts_src, pts_dst), shp)
        set_rg == enu2los(rdr_set_e, rdr_set_n, rdr_set_u, inc_angle,
                          np_shift(head_angle, 90))
        set_az == en2az(rdr_set_e, rdr_set_n, np_shift(head_angle, 0 - 90))
    IN  <<set_rg, set_az>>

\* -------------------------------------------------- skimage.transform.resize
\* resize(image, out_shape, order=1, mode='edge', anti_aliasing=True,
\* preserve_range=True).  An image of the requested shape comes back
\* unchanged.  Otherwise the result is a smoothed bilinear interpolation,
\* whose cells lie between the least and the greatest input value; the way
\* `how` picks one such result: the nearest input cell, or the greatest
\* input value everywhere.
ResizeHows == {"nearest", "high"}

resize_skipped(image, out_shape, how) == image

resize(image, out_shape, how) ==
    IF Shape(image) = out_shape THEN image
    ELSE [r \in 1..out_shape[1] |-> [c \in 1..out_shape[2] |->
            CASE how = "high" -> SetMax(Values(image))
              [] OTHER ->
                 image[((r - 1) * Len(image)) \div out_shape[1] + 1]
                      [((c - 1) * Len(image[1])) \div out_shape[2] + 1]]]

\* ----------------------------------------------- cumulative_correction_luts
\* The range LUT data: Doppler (seconds) to metres, plus the range tide.
\* numpy raises ValueError when the operands cannot be broadcast together.
rg_lut_data_no_half(geometrical_steer_doppler, tides) ==
    np_add(np_scale(geometrical_steer_doppler.data, speed_of_light), tides[1])

rg_lut_data(geometrical_steer_doppler, tides) ==
    np_add(np_half(np_scale(geometrical_steer_doppler.data, speed_of_light)),
           tides[1])

\* The azimuth LUT data.  The azimuth tide tides[2] is not used.
az_lut_data_not_negated(bistatic_delay, az_fm_mismatch, tides) ==
    np_add(bistatic_delay.data, az_fm_mismatch.data)

az_lut_data_with_az_set(bistatic_delay, az_fm_mismatch, tides) ==
    np_neg(np_add(np_add(bistatic_delay.data, az_fm_mismatch.data), tides[2]))

az_lut_data(bistatic_delay, az_fm_mismatch, tides) ==
    np_neg(np_add(bistatic_delay.data, az_fm_mismatch.data))

\* Which LUT gives the returned LUTs their grid
reference_lut_doppler(geometrical_steer_doppler, bistatic_delay, az_fm_mismatch) ==
    geometrical_steer_doppler

reference_lut(geometrical_steer_doppler, bistatic_delay, az_fm_mismatch) ==
    bistatic_delay

\* The sum of cumulative_correction_luts, lines 53-73: a record with the
\* error raised, or the two LUTs.
sum_luts(dop, bis, fm, tides) ==
    IF ~Broadcastable(Shape(dop.data), Shape(tides[1]))
    THEN [error |-> "ValueError", at |-> "rg_lut_data"]
    ELSE IF ~Broadcastable(Shape(bis.data), Shape(fm.data))
    THEN [error |-> "ValueError", at |-> "az_lut_data"]
    ELSE LET ref == reference_lut(dop, bis, fm)
         IN  [error |-> None,
              rg_lut |-> LUT2d(ref.x_start, ref.y_start,
                               ref.x_spacing, ref.y_spacing,
                               rg_lut_data(dop, tides)),
              az_lut |-> LUT2d(ref.x_start, ref.y_start,
                               ref.x_spacing, ref.y_spacing,
                               az_lut_data(bis, fm, tides))]

\* =========================================================== the state
\* Every variable but fs, twin, fn and lb is a function of the running computations
\* (one per call of cumulative_correction_luts, each for one burst).
VARIABLES
    pc,                \* where each computation stands
    burst,             \* its burst: [border, sensing_start]
    rg_step, az_step,  \* its LUT spacings
    scratch_path,      \* its scratch directory, or None
    calls,             \* the calls of external collaborators it made, in order
    geometrical_steering_doppler,  \* result of burst.doppler_induced_range_shift
    bistatic_delay,    \* result of burst.bistatic_delay
    az_fm_mismatch,    \* result of burst.az_fm_rate_mismatch_mitigation
    rdr_grid,          \* the coarse radar grid of compute_rdr2geo_rasters
    rasters,           \* lat, lon, inc_angle, head_angle read by open_raster
    set_temp,          \* <<rg_set_temp, az_set_temp>> on the coarse grid
    tides,             \* <<rg_set, az_set>> resized to the correction grid
    exc,               \* the exception in flight, or NoExc
    error,             \* the exception that left cumulative_correction_luts
    result,            \* the returned <<rg_lut, az_lut>>, or NoResult
    fs,                \* the file system: raster files by path
    twin,              \* two evaluations of the composition (see SpecTwin)
    returned,          \* what topo, the tide model and resize handed back
    fn,                \* a function of the utilities being applied (SpecFn)
    lb,                \* the run of load_bursts (SpecLoad)
    vc                 \* the run of the validation script (SpecValidate)

vars == <<pc, burst, rg_step, az_step, scratch_path, calls,
          geometrical_steering_doppler, bistatic_delay, az_fm_mismatch,
          rdr_grid, rasters, set_temp, tides, exc, error, result, fs, twin,
          returned, fn, lb, vc>>

Procs == DOMAIN pc

\* ------------------------------------------------------------- the inputs
\* Two bursts.  The border of the second has two polygons, the second one
\* reaching further west and south than the first.
Burst1 ==
    [border |-> << << <<2000, 1000>>, <<2900, 1050>>,
                      <<2880, 1250>>, <<1980, 1200>> >> >>,
     sensing_start |-> 7]

Burst2 ==
    [border |-> << << <<5000, 3000>>, <<5900, 3040>>, <<5950, 3200>> >>,
                   << <<4000, 2000>>, <<4100, 2000>>, <<4100, 2100>> >> >>,
     sensing_start |-> 9]

\* The calls of cumulative_correction_luts the model starts from:
\* positive steps (the defaults 200 m and 0.25 s among them), zero and
\* negative steps, with and without a scratch directory.
Invocations ==
    { [burst |-> Burst1, rg_step |-> 200, az_step |-> 250, scratch_path |-> "scratchA"],
      [burst |-> Burst2, rg_step |-> 100, az_step |-> 500, scratch_path |-> None],
      [burst |-> Burst1, rg_step |-> 200, az_step |-> 0, scratch_path |-> "scratchA"],
      [burst |-> Burst1, rg_step |-> 0, az_step |-> 250, scratch_path |-> None],
      [burst |-> Burst2, rg_step |-> 200, az_step |-> 0 - 250, scratch_path |-> "scratchB"] }

\* --------------------------------------------- what the collaborators return
\* A data array of the given shape with values base .. base + 3
Pattern(shape, base) ==
    [r \in 1..shape[1] |-> [c \in 1..shape[2] |->
        base + ((r - 1) % 2) + 2 * ((c - 1) % 2)]]

Constant(shape, v) == [r \in 1..shape[1] |-> [c \in 1..shape[2] |-> v]]

\* Shapes of the LUTs the burst model may return: the full grid, a grid of a
\* single row, and a grid with one row more.
LutShapes == {<<MaxDim, MaxDim>>, <<1, MaxDim>>, <<MaxDim + 1, MaxDim>>}

\* The LUTs an adapter of the burst model may return when called with the
\* steps rg and az: by default on the grid with origin (0, 0) and the steps
\* as spacing, but the grid is the collaborator's choice.
AdapterLuts(rg, az, base) ==
    {LUT2d(0, 0, rg, az, Pattern(s, base)) : s \in LutShapes}
    \cup {LUT2d(1, 3, rg + 1, az, Constant(<<MaxDim, MaxDim>>, base))}

\* Shapes (length, width) of the coarse radar grid, from burst._steps_to_vecs
CoarseShapes == {<<1, 1>>, <<1, 2>>}

\* What the geometry engine may write for a burst on a coarse grid of the
\* given shape: cells inside the tide grid seen at nadir, cells inside the
\* tide grid seen sideways, cells outside the tide grid.
Geometries(b, shape) ==
    LET bb == bounds(b.border[1])
        G(dlon, dlat, inc, head) ==
            [x |-> [r \in 1..shape[1] |-> [c \in 1..shape[2] |->
                        bb[1] + dlon + 300 * (c - 1)]],
             y |-> [r \in 1..shape[1] |-> [c \in 1..shape[2] |->
                        bb[2] + dlat + 40 * (r - 1)]],
             incidence_angle |-> Constant(shape, inc),
             heading_angle |-> Constant(shape, head)]
    IN  {G(0, 0, 0, 0), G(10, 20, 90, 0), G(10, 0 - 500, 90, 90)}

\* What the tide model may return: east, north and up fields of shape
\* (LENGTH, WIDTH), each base + dr * row + dc * column
TideField(q) ==
    [r \in 1..LENGTH |-> [c \in 1..WIDTH |->
        q[1] + q[2] * (r - 1) + q[3] * (c - 1)]]

TideOutputs ==
    { [e |-> <<0, 0, 0>>, n |-> <<0, 0, 0>>, u |-> <<0, 0, 0>>],
      [e |-> <<1, 0, 0>>, n |-> <<2, 0, 0>>, u |-> <<3, 0, 0>>],
      [e |-> <<5, 1, 0>>, n |-> <<0, 0, 1>>, u |-> <<0 - 4, 10, 1>>] }

TideFields(t) == [e |-> TideField(t.e), n |-> TideField(t.n), u |-> TideField(t.u)]

\* ----------------------------------------------------------------- files
\* f'{scratch_path}/corrections': the f-string formats None as 'None'
fstr(x) == IF x = None THEN "None" ELSE x

output_path(scratch) == <<fstr(scratch), "corrections">>

\* The layers of topo_output, in the order of the dictionary
topo_output == <<"x", "y", "incidence_angle", "heading_angle">>

rdr_path(out, fname) == Append(out, fname)

AllPaths ==
    {rdr_path(output_path(sp), topo_output[i]) :
        sp \in {None, "scratchA", "scratchB"}, i \in 1..4}

NoFile == [by |-> 0, data |-> << >>]

\* ============================================================ the actions
inputs == <<burst, rg_step, az_step, scratch_path>>
adapters == <<geometrical_steering_doppler, bistatic_delay, az_fm_mismatch>>

Goto(p, site) == pc' = [pc EXCEPT ![p] = site]
Log(p, call) == calls' = [calls EXCEPT ![p] = Append(@, call)]
Call(op, args) == [op |-> op, args |-> args]

\* No exception, and nothing returned
NoExc == [type |-> None, at |-> None, by |-> None]
NoResult == << >>
\* Nothing handed back yet by topo, the tide model and resize
NoReturned == [topo |-> << >>, tide |-> << >>, resize |-> << >>]

\* The statement at `site` is executed next and no exception is in flight
At_pc(p, site) == pc[p] = site /\ exc[p] = NoExc

\* The sites where an external collaborator is called, in program order
ExternalSites ==
    <<"dem_raster", "makedirs", "doppler", "bistatic", "fm_mismatch",
      "steps_to_vecs", "radar_grid", "rasters", "topo",
      "open_lat", "open_lon", "open_inc", "open_head", "tide", "resize">>

\* The control flow with the geometry engine run before the adapters
after_topo_first(site) ==
    CASE site = "dem_raster" -> "makedirs"
      [] site = "makedirs" -> "steps_to_vecs"
      [] site = "steps_to_vecs" -> "radar_grid"
      [] site = "radar_grid" -> "rasters"
      [] site = "rasters" -> "topo"
      [] site = "topo" -> "doppler"
      [] site = "doppler" -> "bistatic"
      [] site = "bistatic" -> "fm_mismatch"
      [] site = "fm_mismatch" -> "open_lat"
      [] site = "open_lat" -> "open_lon"
      [] site = "open_lon" -> "open_inc"
      [] site = "open_inc" -> "open_head"
      [] site = "open_head" -> "tide"
      [] site = "tide" -> "resize"
      [] site = "resize" -> "sum"
      [] OTHER -> "done"

\* The control flow of cumulative_correction_luts: the site executed after
\* `site` when the statement at `site` returns
after(site) ==
    CASE site = "resize" -> "sum"
      [] site = "sum" -> "done"
      [] OTHER ->
         LET i == CHOOSE k \in 1..Len(ExternalSites) : ExternalSites[k] = site
         IN  ExternalSites[i + 1]

\* The collaborator called at each site
OpAt(site) ==
    CASE site = "dem_raster" -> "isce3.io.Raster"
      [] site = "makedirs" -> "os.makedirs"
      [] site = "doppler" -> "doppler_induced_range_shift"
      [] site = "bistatic" -> "bistatic_delay"
      [] site = "fm_mismatch" -> "az_fm_rate_mismatch_mitigation"
      [] site = "steps_to_vecs" -> "_steps_to_vecs"
      [] site = "radar_grid" -> "RadarGridParameters"
      [] site = "rasters" -> "Rdr2Geo"
      [] site = "topo" -> "topo"
      [] site \in {"open_lat", "open_lon", "open_inc", "open_head"} -> "open_raster"
      [] site = "tide" -> "calc_solid_earth_tides_grid"
      [] site = "resize" -> "resize"

StepArgs(p) == [range_step |-> rg_step[p], az_step |-> az_step[p]]

\* lut.py:124  dem_raster = isce3.io.Raster(dem_path)
OpenDem(p) ==
    /\ At_pc(p, "dem_raster")
    /\ Log(p, Call("isce3.io.Raster", [path |-> "dem_path"]))
    /\ Goto(p, after("dem_raster"))
    /\ UNCHANGED <<inputs, adapters, rdr_grid, rasters, set_temp, tides,
                   exc, error, result, fs, twin, returned, fn, lb, vc>>

\* lut.py:127-128  os.makedirs(f'{scratch_path}/corrections', exist_ok=True)
Makedirs(p) ==
    /\ At_pc(p, "makedirs")
    /\ Log(p, Call("os.makedirs", [path |-> output_path(scratch_path[p])]))
    /\ fs' = [fs EXCEPT !.dirs = @ \cup {output_path(scratch_path[p])}]
    /\ Goto(p, after("makedirs"))
    /\ UNCHANGED <<inputs, adapters, rdr_grid, rasters, set_temp, tides,
                   exc, error, result, twin, returned, fn, lb, vc>>

\* lut.py:131-132  burst.doppler_induced_range_shift(range_step, az_step)
Doppler(p) ==
    /\ At_pc(p, "doppler")
    /\ \E lut \in AdapterLuts(rg_step[p], az_step[p], 1) :
          geometrical_steering_doppler' =
              [geometrical_steering_doppler EXCEPT ![p] = lut]
    /\ Log(p, Call("doppler_induced_range_shift", StepArgs(p)))
    /\ Goto(p, after("doppler"))
    /\ UNCHANGED <<inputs, bistatic_delay, az_fm_mismatch, rdr_grid, rasters,
                   set_temp, tides, exc, error, result, fs, twin, returned, fn, lb, vc>>

\* lut.py:135  burst.bistatic_delay(range_step, az_step)
Bistatic(p) ==
    /\ At_pc(p, "bistatic")
    /\ \E lut \in AdapterLuts(rg_step[p], az_step[p], 10) :
          bistatic_delay' = [bistatic_delay EXCEPT ![p] = lut]
    /\ Log(p, Call("bistatic_delay", StepArgs(p)))
    /\ Goto(p, after("bistatic"))
    /\ UNCHANGED <<inputs, geometrical_steering_doppler, az_fm_mismatch,
                   rdr_grid, rasters, set_temp, tides, exc, error, result,
                   fs, twin, returned, fn, lb, vc>>

\* lut.py:138-141  burst.az_fm_rate_mismatch_mitigation(dem_path, scratch_path, ...)
FmMismatch(p) ==
    /\ At_pc(p, "fm_mismatch")
    /\ \E lut \in AdapterLuts(rg_step[p], az_step[p], 20) :
          az_fm_mismatch' = [az_fm_mismatch EXCEPT ![p] = lut]
    /\ Log(p, Call("az_fm_rate_mismatch_mitigation",
                   [range_step |-> rg_step[p], az_step |-> az_step[p],
                    scratch_path |-> scratch_path[p]]))
    /\ Goto(p, after("fm_mismatch"))
    /\ UNCHANGED <<inputs, geometrical_steering_doppler, bistatic_delay,
                   rdr_grid, rasters, set_temp, tides, exc, error, result,
                   fs, twin, returned, fn, lb, vc>>

\* lut.py:145-147 and 284-291: compute_rdr2geo_rasters is entered with the
\* steps times ten; burst._steps_to_vecs gives the size of the coarse grid
StepsToVecs(p) ==
    /\ At_pc(p, "steps_to_vecs")
    /\ \E shape \in CoarseShapes :
          rdr_grid' = [rdr_grid EXCEPT ![p] =
              [rg_step |-> rg_step[p] * CoarseFactor,
               az_step |-> az_step[p] * CoarseFactor,
               length |-> shape[1], width |-> shape[2], built |-> FALSE]]
    /\ Log(p, Call("_steps_to_vecs",
                   [range_step |-> rg_step[p] * CoarseFactor,
                    az_step |-> az_step[p] * CoarseFactor]))
    /\ Goto(p, after("steps_to_vecs"))
    /\ UNCHANGED <<inputs, adapters, rasters, set_temp, tides, exc, error,
                   result, fs, twin, returned, fn, lb, vc>>

\* lut.py:293-303  RadarGridParameters(..., 1.0 / az_step, ..., rg_step, ...):
\* the argument 1.0 / az_step is evaluated first and divides by zero when
\* az_step is 0; otherwise the constructor is called, and isce3 rejects a
\* pulse repetition frequency or a range spacing that is not positive
RadarGrid(p) ==
    /\ At_pc(p, "radar_grid")
    /\ IF rdr_grid[p].az_step = 0
       THEN /\ exc' = [exc EXCEPT ![p] =
                         [type |-> "ZeroDivisionError", at |-> "radar_grid",
                          by |-> "1.0 / az_step"]]
            /\ UNCHANGED <<pc, calls, rdr_grid>>
       ELSE /\ Log(p, Call("RadarGridParameters",
                           [range_step |-> rdr_grid[p].rg_step,
                            az_step |-> rdr_grid[p].az_step]))
            /\ IF rdr_grid[p].az_step < 0 \/ rdr_grid[p].rg_step <= 0
               THEN /\ exc' = [exc EXCEPT ![p] =
                                 [type |-> "InvalidArgument", at |-> "radar_grid",
                                  by |-> "RadarGridParameters"]]
                    /\ UNCHANGED <<pc, rdr_grid>>
               ELSE /\ rdr_grid' = [rdr_grid EXCEPT ![p].built = TRUE]
                    /\ Goto(p, after("radar_grid"))
                    /\ UNCHANGED exc
    /\ UNCHANGED <<inputs, adapters, rasters, set_temp, tides, error,
                   result, fs, twin, returned, fn, lb, vc>>

\* A raster file as isce3.io.Raster(path, width, length, 1, dtype, 'ENVI')
\* creates it: all zero
NewRaster(p) ==
    [by |-> p, data |-> Constant(<<rdr_grid[p].length, rdr_grid[p].width>>, 0)]

\* lut.py:305-322  the Rdr2Geo object and the four output rasters
CreateRasters(p) ==
    /\ At_pc(p, "rasters")
    /\ LET out == output_path(scratch_path[p])
       IN  fs' = [fs EXCEPT !.files =
                    [f \in AllPaths |->
                        IF \E i \in 1..4 : f = rdr_path(out, topo_output[i])
                        THEN NewRaster(p) ELSE @[f]]]
    /\ Log(p, Call("Rdr2Geo", [range_step |-> rdr_grid[p].rg_step,
                               az_step |-> rdr_grid[p].az_step]))
    /\ Goto(p, after("rasters"))
    /\ UNCHANGED <<inputs, adapters, rdr_grid, rasters, set_temp, tides,
                   exc, error, result, twin, returned, fn, lb, vc>>

\* lut.py:325-327  rdr2geo_obj.topo(dem_raster, x_raster, y_raster, ...)
\* writes the four layers of this burst's coarse geometry
Topo(p) ==
    /\ At_pc(p, "topo")
    /\ \E g \in Geometries(burst[p], <<rdr_grid[p].length, rdr_grid[p].width>>) :
          LET out == output_path(scratch_path[p])
          IN  /\ fs' = [fs EXCEPT !.files =
                       [f \in AllPaths |->
                           IF \E i \in 1..4 : f = rdr_path(out, topo_output[i])
                           THEN [by |-> p, data |-> g[f[3]]] ELSE @[f]]]
              /\ returned' = [returned EXCEPT ![p].topo = <<g>>]
    /\ Log(p, Call("topo", [range_step |-> rdr_grid[p].rg_step,
                            az_step |-> rdr_grid[p].az_step]))
    /\ Goto(p, after("topo"))
    /\ UNCHANGED <<inputs, adapters, rdr_grid, rasters, set_temp, tides,
                   exc, error, result, twin, fn, lb, vc>>

\* lut.py:330-332  the paths returned: x, y, incidence_angle, heading_angle
rdr2geo_paths(out) == [i \in 1..4 |-> rdr_path(out, topo_output[i])]

\* helpers.open_raster: the array of band 1 of the raster file
open_raster(path) == fs.files[path]

\* lut.py:145-153  lon_path, lat_path, inc_path, head_path = paths; the
\* layers are opened in the order lat, lon, inc_angle, head_angle
OpenLayers_lat_lon_swapped ==
    [open_lat |-> [layer |-> "lat", path |-> 1],
     open_lon |-> [layer |-> "lon", path |-> 2],
     open_inc |-> [layer |-> "inc_angle", path |-> 3],
     open_head |-> [layer |-> "head_angle", path |-> 4]]

OpenLayers ==
    [open_lat |-> [layer |-> "lat", path |-> 2],
     open_lon |-> [layer |-> "lon", path |-> 1],
     open_inc |-> [layer |-> "inc_angle", path |-> 3],
     open_head |-> [layer |-> "head_angle", path |-> 4]]

\* open_raster with a cache of arrays that an earlier run fills
OpenRaster_cached(p) ==
    /\ pc[p] \in DOMAIN OpenLayers
    /\ exc[p] = NoExc
    /\ LET o == OpenLayers[pc[p]]
           path == rdr2geo_paths(output_path(scratch_path[p]))[o.path]
           earlier == {q \in Procs : q < p /\ rasters[q][o.layer] # NoFile}
       IN  /\ rasters' = [rasters EXCEPT ![p][o.layer] =
                            IF earlier = {} THEN open_raster(path)
                            ELSE rasters[CHOOSE q \in earlier : TRUE][o.layer]]
           /\ Log(p, Call("open_raster", [path |-> path]))
           /\ Goto(p, after(pc[p]))
    /\ UNCHANGED <<inputs, adapters, rdr_grid, set_temp, tides, exc, error,
                   result, fs, twin, returned, fn, lb, vc>>

OpenRaster(p) ==
    /\ pc[p] \in DOMAIN OpenLayers
    /\ exc[p] = NoExc
    /\ LET o == OpenLayers[pc[p]]
           path == rdr2geo_paths(output_path(scratch_path[p]))[o.path]
       IN  /\ rasters' = [rasters EXCEPT ![p][o.layer] = open_raster(path)]
           /\ Log(p, Call("open_raster", [path |-> path]))
           /\ Goto(p, after(pc[p]))
    /\ UNCHANGED <<inputs, adapters, rdr_grid, set_temp, tides, exc, error,
                   result, fs, twin, returned, fn, lb, vc>>

\* lut.py:156-157 and 197-250  solid_earth_tides: the tide model is called
\* with the sensing start and the grid descriptor, and its east, north and
\* up fields are resampled to the radar grid and converted
CallTideModel(p) ==
    /\ At_pc(p, "tide")
    /\ Log(p, Call("calc_solid_earth_tides_grid",
                   [timestamp |-> burst[p].sensing_start,
                    atr |-> tide_atr(burst[p])]))
    /\ IF tide_shapes_fit(rasters[p].lat.data, rasters[p].lon.data,
                          rasters[p].inc_angle.data, rasters[p].head_angle.data)
       THEN /\ \E t \in TideOutputs :
                  /\ set_temp' = [set_temp EXCEPT ![p] =
                        solid_earth_tides(burst[p], TideFields(t),
                                          rasters[p].lat.data, rasters[p].lon.data,
                                          rasters[p].inc_angle.data,
                                          rasters[p].head_angle.data)]
                  /\ returned' = [returned EXCEPT ![p].tide = <<t>>]
            /\ Goto(p, after("tide"))
            /\ UNCHANGED exc
       ELSE /\ exc' = [exc EXCEPT ![p] =
                         [type |-> "ValueError", at |-> "tide",
                          by |-> "solid_earth_tides"]]
            /\ UNCHANGED <<pc, set_temp, returned>>
    /\ UNCHANGED <<inputs, adapters, rdr_grid, rasters, tides, error,
                   result, fs, twin, fn, lb, vc>>

\* lut.py:160-164  both tide fields are resized to the shape of the
\* bistatic-delay data
Resize(p) ==
    /\ At_pc(p, "resize")
    /\ LET out_shape == Shape(bistatic_delay[p].data)
       IN  /\ \E how \in ResizeHows :
                 /\ tides' = [tides EXCEPT ![p] =
                       <<resize(set_temp[p][1], out_shape, how),
                         resize(set_temp[p][2], out_shape, how)>>]
                 /\ returned' = [returned EXCEPT ![p].resize = <<how>>]
           /\ calls' = [calls EXCEPT ![p] =
                 @ \o <<Call("resize", [image |-> "rg_set_temp", out_shape |-> out_shape]),
                        Call("resize", [image |-> "az_set_temp", out_shape |-> out_shape])>>]
    /\ Goto(p, after("resize"))
    /\ UNCHANGED <<inputs, adapters, rdr_grid, rasters, set_temp, exc,
                   error, result, fs, twin, fn, lb, vc>>

\* lut.py:53-73  the sums and the two LUT2d objects returned
Sum(p) ==
    /\ At_pc(p, "sum")
    /\ LET r == sum_luts(geometrical_steering_doppler[p], bistatic_delay[p],
                         az_fm_mismatch[p], tides[p])
       IN  IF r.error # None
           THEN /\ exc' = [exc EXCEPT ![p] =
                             [type |-> r.error, at |-> "sum", by |-> r.at]]
                /\ UNCHANGED <<pc, result>>
           ELSE /\ result' = [result EXCEPT ![p] = <<r.rg_lut, r.az_lut>>]
                /\ Goto(p, after("sum"))
                /\ UNCHANGED exc
    /\ UNCHANGED <<inputs, adapters, calls, rdr_grid, rasters, set_temp,
                   tides, error, fs, twin, returned, fn, lb, vc>>

\* The collaborator called at the current site raises instead of returning
ExternalRaises(p) ==
    /\ \E i \in 1..Len(ExternalSites) : pc[p] = ExternalSites[i]
    /\ exc[p] = NoExc
    /\ Log(p, Call(OpAt(pc[p]), [raised |-> TRUE]))
    /\ exc' = [exc EXCEPT ![p] =
                 [type |-> "Error", at |-> pc[p], by |-> OpAt(pc[p])]]
    /\ UNCHANGED <<inputs, adapters, pc, rdr_grid, rasters, set_temp, tides,
                   error, result, fs, twin, returned, fn, lb, vc>>

\* No statement of lut.py catches an exception: an exception in flight
\* leaves cumulative_correction_luts as it is, and nothing is returned
Propagate_zero_tide(p) ==
    /\ exc[p] # NoExc
    /\ pc[p] # "failed"
    /\ IF pc[p] = "tide"
       THEN /\ exc' = [exc EXCEPT ![p] = NoExc]
            /\ set_temp' = [set_temp EXCEPT ![p] =
                  <<Constant(Shape(rasters[p].lat.data), 0),
                    Constant(Shape(rasters[p].lat.data), 0)>>]
            /\ Goto(p, after("tide"))
            /\ UNCHANGED error
       ELSE /\ error' = [error EXCEPT ![p] = exc[p]]
            /\ Goto(p, "failed")
            /\ UNCHANGED <<exc, set_temp>>
    /\ UNCHANGED <<inputs, adapters, calls, rdr_grid, rasters, tides,
                   result, fs, twin, returned, fn, lb, vc>>

Propagate(p) ==
    /\ exc[p] # NoExc
    /\ pc[p] # "failed"
    /\ error' = [error EXCEPT ![p] = exc[p]]
    /\ Goto(p, "failed")
    /\ UNCHANGED <<inputs, adapters, calls, rdr_grid, rasters, set_temp,
                   tides, exc, result, fs, twin, returned, fn, lb, vc>>

\* ============================================================= one burst
NoRasters == [lat |-> NoFile, lon |-> NoFile, inc_angle |-> NoFile,
              head_angle |-> NoFile]

NoLut == LUT2d(0, 0, 0, 0, << <<0>> >>)

\* The state in which cumulative_correction_luts is entered for each of
\* the invocations inv (a function from computations to Invocations)
Entered(inv, site) ==
    /\ pc = [p \in DOMAIN inv |-> site]
    /\ burst = [p \in DOMAIN inv |-> inv[p].burst]
    /\ rg_step = [p \in DOMAIN inv |-> inv[p].rg_step]
    /\ az_step = [p \in DOMAIN inv |-> inv[p].az_step]
    /\ scratch_path = [p \in DOMAIN inv |-> inv[p].scratch_path]
    /\ calls = [p \in DOMAIN inv |-> << >>]
    /\ rdr_grid = [p \in DOMAIN inv |->
                     [rg_step |-> 0, az_step |-> 0, length |-> 0, width |-> 0,
                      built |-> FALSE]]
    /\ rasters = [p \in DOMAIN inv |-> NoRasters]
    /\ set_temp = [p \in DOMAIN inv |-> << >>]
    /\ tides = [p \in DOMAIN inv |-> << >>]
    /\ exc = [p \in DOMAIN inv |-> NoExc]
    /\ error = [p \in DOMAIN inv |-> NoExc]
    /\ result = [p \in DOMAIN inv |-> NoResult]
    /\ returned = [p \in DOMAIN inv |-> NoReturned]

EmptyFs == [dirs |-> {}, files |-> [f \in AllPaths |-> NoFile]]

Init ==
    /\ \E i \in Invocations : Entered([p \in {1} |-> i], "dem_raster")
    /\ geometrical_steering_doppler = [p \in {1} |-> NoLut]
    /\ bistatic_delay = [p \in {1} |-> NoLut]
    /\ az_fm_mismatch = [p \in {1} |-> NoLut]
    /\ fs = EmptyFs
    /\ twin = None
    /\ fn = None
    /\ lb = None
    /\ vc = None

Next ==
    \/ \E p \in Procs : OpenDem(p)
    \/ \E p \in Procs : Makedirs(p)
    \/ \E p \in Procs : Doppler(p)
    \/ \E p \in Procs : Bistatic(p)
    \/ \E p \in Procs : FmMismatch(p)
    \/ \E p \in Procs : StepsToVecs(p)
    \/ \E p \in Procs : RadarGrid(p)
    \/ \E p \in Procs : CreateRasters(p)
    \/ \E p \in Procs : Topo(p)
    \/ \E p \in Procs : OpenRaster(p)
    \/ \E p \in Procs : CallTideModel(p)
    \/ \E p \in Procs : Resize(p)
    \/ \E p \in Procs : Sum(p)
    \/ \E p \in Procs : ExternalRaises(p)
    \/ \E p \in Procs : Propagate(p)

Spec == Init /\ [][Next]_vars

\* ================================================================ claims
Returned(p) == result[p] # NoResult

\* The cells of a 2-D array, as <<row, column>> pairs
Cells(a) == {<<r, c>> : r \in 1..Len(a), c \in 1..Len(a[1])}

\* C1: when cumulative_correction_luts returns, the range LUT equals, at
\* every cell of the reference (bistatic-delay) grid that the Doppler field
\* has, the Doppler shift of that cell times speed_of_light / 2 plus the
\* range tide of that cell.
C1_RangeLut ==
    \A p \in Procs : Returned(p) =>
        LET rg == result[p][1].data
            dop == geometrical_steering_doppler[p].data
            tide == tides[p][1]
        IN  \A rc \in Cells(bistatic_delay[p].data) \cap Cells(dop) :
                rg[rc[1]][rc[2]] =
                    (dop[rc[1]][rc[2]] * 299792458) \div 2 + tide[rc[1]][rc[2]]

\* C1 witness: a LUT was returned for Doppler and bistatic fields of the
\* same shape of several cells, with a non-zero range tide
C1_Witness ==
    \E p \in Procs :
        /\ Returned(p)
        /\ Shape(geometrical_steering_doppler[p].data) = <<MaxDim, MaxDim>>
        /\ Shape(bistatic_delay[p].data) = <<MaxDim, MaxDim>>
        /\ tides[p][1][1][1] # 0
        /\ tides[p][1][1][1] # tides[p][1][MaxDim][MaxDim]

\* C2: when cumulative_correction_luts returns, the azimuth LUT equals, at
\* every cell of the reference grid that the FM-mismatch field has, the
\* negated sum of the bistatic delay and the FM-rate mismatch of that cell.
C2_AzimuthLut ==
    \A p \in Procs : Returned(p) =>
        LET az == result[p][2].data
            bis == bistatic_delay[p].data
            fm == az_fm_mismatch[p].data
        IN  \A rc \in Cells(bis) \cap Cells(fm) :
                az[rc[1]][rc[2]] = 0 - (bis[rc[1]][rc[2]] + fm[rc[1]][rc[2]])

\* C2 witness: a LUT was returned for bistatic and FM-mismatch fields of the
\* same shape, both non-zero, with a non-zero azimuth tide at hand
C2_Witness ==
    \E p \in Procs :
        /\ Returned(p)
        /\ Shape(az_fm_mismatch[p].data) = <<MaxDim, MaxDim>>
        /\ Shape(bistatic_delay[p].data) = <<MaxDim, MaxDim>>
        /\ bistatic_delay[p].data[1][1] # 0
        /\ az_fm_mismatch[p].data[1][1] # 0
        /\ tides[p][2][1][1] # 0

Ops(p) == [i \in 1..Len(calls[p]) |-> calls[p][i].op]

\* The calls of p to the collaborator op
CallsTo(p, op) == {i \in 1..Len(calls[p]) : calls[p][i].op = op}

\* C4 (as claimed): LUTs are returned only if the Doppler, bistatic-delay
\* and FM-mismatch fields and the resized tide share one grid (origin,
\* spacing and shape); with differing grids nothing is returned.
C4_Original ==
    \A p \in Procs : Returned(p) =>
        /\ GridOf(geometrical_steering_doppler[p]) = GridOf(bistatic_delay[p])
        /\ GridOf(az_fm_mismatch[p]) = GridOf(bistatic_delay[p])
        /\ Shape(tides[p][1]) = Shape(bistatic_delay[p].data)

\* C5: once a call of an external collaborator has raised, no further
\* collaborator is called (the failed call is not repeated either), nothing
\* is returned, and the exception leaves the computation unchanged.
C5_FailFast ==
    [][\A p \in Procs : exc[p] # NoExc =>
          /\ calls'[p] = calls[p]
          /\ exc'[p] = exc[p]
          /\ result[p] = NoResult /\ result'[p] = NoResult
          /\ pc'[p] \in {pc[p], "failed"}
          /\ pc'[p] = "failed" => error'[p] = exc[p]]_vars

\* C5 witness: the tide model raised, and its exception left the
\* computation after all other collaborators had returned
C5_Witness ==
    \E p \in Procs :
        /\ pc[p] = "failed"
        /\ error[p].at = "tide"
        /\ error[p].by = "calc_solid_earth_tides_grid"
        /\ result[p] = NoResult
        /\ CallsTo(p, "topo") # {}

\* The collaborators whose order C8 is about
AdapterOps ==
    {"doppler_induced_range_shift", "bistatic_delay",
     "az_fm_rate_mismatch_mitigation"}

\* C8 (as claimed): the Doppler, bistatic-delay and FM-mismatch adapters
\* are invoked only after the coarse radar grid was built and the geometry
\* engine run.
C8_Original ==
    \A p \in Procs : \A i \in 1..Len(calls[p]) :
        calls[p][i].op \in AdapterOps =>
            \E j \in 1..(i - 1) : calls[p][j].op = "topo"

\* The order of the code: the three adapters, the coarse radar grid, the
\* geometry engine, the tide model, the resizing
CodeOrder ==
    <<"doppler_induced_range_shift", "bistatic_delay",
      "az_fm_rate_mismatch_mitigation", "RadarGridParameters", "topo",
      "calc_solid_earth_tides_grid", "resize">>

Rank(op) == CHOOSE k \in 1..Len(CodeOrder) : CodeOrder[k] = op

InOrder(op) == \E k \in 1..Len(CodeOrder) : CodeOrder[k] = op

\* C8 (amended): in every run the Doppler, bistatic-delay and FM-mismatch
\* adapters are invoked first, then the coarse radar grid is built and the
\* geometry engine run, then the tide model is invoked, then the tide
\* fields are resized, and only then are the fields summed.
C8_Order ==
    \A p \in Procs :
        /\ \A i, j \in 1..Len(calls[p]) :
              (i < j /\ InOrder(calls[p][i].op) /\ InOrder(calls[p][j].op))
                  => Rank(calls[p][i].op) <= Rank(calls[p][j].op)
        /\ \A j \in 1..Len(calls[p]) :
              (InOrder(calls[p][j].op) /\ Rank(calls[p][j].op) > 1) =>
                  \E i \in 1..(j - 1) :
                      calls[p][i].op = CodeOrder[Rank(calls[p][j].op) - 1]
        /\ (pc[p] = "done" \/ Returned(p)) => Cardinality(CallsTo(p, "resize")) = 2

\* C8 witness: a run that made every call and returned
C8_Witness ==
    \E p \in Procs :
        /\ Returned(p)
        /\ \A k \in 1..Len(CodeOrder) : CallsTo(p, CodeOrder[k]) # {}

NonPositiveStep(p) == rg_step[p] <= 0 \/ az_step[p] <= 0

\* C9 (as claimed): with a non-positive step the computation gets no
\* further than the construction of the coarse radar grid, which fails with
\* an invalid-argument error raised by the construction itself; the
\* geometry engine is not invoked and nothing is returned.
C9_Original ==
    \A p \in Procs : NonPositiveStep(p) =>
        /\ CallsTo(p, "topo") = {}
        /\ ~Returned(p)
        /\ pc[p] \in {"dem_raster", "makedirs", "doppler", "bistatic",
                      "fm_mismatch", "steps_to_vecs", "radar_grid", "failed"}
        /\ (exc[p] # NoExc /\ exc[p].at = "radar_grid") =>
              (exc[p].by = "RadarGridParameters")

C13_TideShape ==
    \A p \in Procs : pc[p] \in {"sum", "done"} =>
        /\ Shape(tides[p][1]) = Shape(bistatic_delay[p].data)
        /\ Shape(tides[p][2]) = Shape(bistatic_delay[p].data)

\* C13 witness: LUTs were returned from a tide evaluated on a coarse grid of
\* another shape than the bistatic-delay data
C13_Witness ==
    \E p \in Procs :
        /\ Returned(p)
        /\ Shape(set_temp[p][1]) # Shape(bistatic_delay[p].data)
        /\ Shape(tides[p][1]) = Shape(bistatic_delay[p].data)

\* The value the tide field has at the node of the tide grid nearest to
\* (lat, lon), 0 outside the grid; row r of the field is the r-th latitude
\* from the origin of the descriptor
NodeValue(b, field, lat, lon) ==
    LET la == lat_geo_array(b)
        lo == lon_geo_array(b)
        x == lat * la.den
        y == lon * lo.den
    IN  IF \/ x < la.num[1] \/ x > la.num[Len(la.num)]
           \/ y < lo.num[1] \/ y > lo.num[Len(lo.num)]
        THEN 0
        ELSE field[FindNearest(la.num, x)][FindNearest(lo.num, y)]

\* The geometry topo wrote and the fields the tide model returned
TopoOf(p) == returned[p].topo[1]
TideOf(p) == TideFields(returned[p].tide[1])

\* C18: the layers keep their role.  The arrays read are the ones topo wrote
\* as x (longitude), y (latitude), incidence_angle and heading_angle, and
\* the tide of every cell is the tide model's value at the node nearest to
\* (latitude from y, longitude from x), projected with the incidence angle
\* and the heading of that cell.
C18_LayerRoles ==
    \A p \in Procs : pc[p] \in {"resize", "sum", "done"} =>
        LET g == TopoOf(p)
            E(q) == NodeValue(burst[p], TideOf(p).e, g.y[q[1]][q[2]], g.x[q[1]][q[2]])
            N(q) == NodeValue(burst[p], TideOf(p).n, g.y[q[1]][q[2]], g.x[q[1]][q[2]])
            U(q) == NodeValue(burst[p], TideOf(p).u, g.y[q[1]][q[2]], g.x[q[1]][q[2]])
            I(q) == g.incidence_angle[q[1]][q[2]]
            H(q) == g.heading_angle[q[1]][q[2]]
        IN  /\ rasters[p].lon.data = g.x
            /\ rasters[p].lat.data = g.y
            /\ rasters[p].inc_angle.data = g.incidence_angle
            /\ rasters[p].head_angle.data = g.heading_angle
            /\ \A q \in Cells(g.x) :
                  /\ set_temp[p][1][q[1]][q[2]] =
                        (0 - E(q)) * SinDeg(I(q)) * SinDeg(H(q) + 90)
                        + N(q) * SinDeg(I(q)) * CosDeg(H(q) + 90)
                        + U(q) * CosDeg(I(q))
                  /\ set_temp[p][2][q[1]][q[2]] =
                        (0 - E(q)) * SinDeg(H(q) - 90) + N(q) * CosDeg(H(q) - 90)

\* C18 witness: LUTs were returned from a geometry whose latitudes and
\* longitudes differ and whose incidence and heading differ, with a tide
\* that is not zero on the coarse grid
C18_Witness ==
    \E p \in Procs :
        /\ Returned(p)
        /\ TopoOf(p).x # TopoOf(p).y
        /\ TopoOf(p).incidence_angle # TopoOf(p).heading_angle
        /\ \E q \in Cells(set_temp[p][1]) : set_temp[p][1][q[1]][q[2]] # 0

\* ===================================================== two bursts at once
\* Two computations, one per burst, run concurrently by a caller; each has
\* gone through the adapters (the caller's scratch directory exists and the
\* three LUTs are at hand) and is about to enter compute_rdr2geo_rasters.
ScratchPairs ==
    {<<"scratchA", "scratchB">>, <<"scratchA", "scratchA">>}

CallsBeforeRdr2geo(i) ==
    <<Call("isce3.io.Raster", [path |-> "dem_path"]),
      Call("os.makedirs", [path |-> output_path(i.scratch_path)]),
      Call("doppler_induced_range_shift",
           [range_step |-> i.rg_step, az_step |-> i.az_step]),
      Call("bistatic_delay", [range_step |-> i.rg_step, az_step |-> i.az_step]),
      Call("az_fm_rate_mismatch_mitigation",
           [range_step |-> i.rg_step, az_step |-> i.az_step,
            scratch_path |-> i.scratch_path])>>

InitPar ==
    \E sp \in ScratchPairs :
        LET inv == <<[burst |-> Burst1, rg_step |-> 200, az_step |-> 250,
                      scratch_path |-> sp[1]],
                     [burst |-> Burst2, rg_step |-> 200, az_step |-> 250,
                      scratch_path |-> sp[2]]>>
            full == <<MaxDim, MaxDim>>
        IN  /\ pc = [p \in {1, 2} |-> "steps_to_vecs"]
            /\ burst = [p \in {1, 2} |-> inv[p].burst]
            /\ rg_step = [p \in {1, 2} |-> inv[p].rg_step]
            /\ az_step = [p \in {1, 2} |-> inv[p].az_step]
            /\ scratch_path = [p \in {1, 2} |-> inv[p].scratch_path]
            /\ calls = [p \in {1, 2} |-> CallsBeforeRdr2geo(inv[p])]
            /\ geometrical_steering_doppler =
                  [p \in {1, 2} |-> LUT2d(0, 0, 200, 250, Pattern(full, 1))]
            /\ bistatic_delay =
                  [p \in {1, 2} |-> LUT2d(0, 0, 200, 250, Pattern(full, 10))]
            /\ az_fm_mismatch =
                  [p \in {1, 2} |-> LUT2d(0, 0, 200, 250, Pattern(full, 20))]
            /\ rdr_grid = [p \in {1, 2} |->
                             [rg_step |-> 0, az_step |-> 0, length |-> 0,
                              width |-> 0, built |-> FALSE]]
            /\ rasters = [p \in {1, 2} |-> NoRasters]
            /\ set_temp = [p \in {1, 2} |-> << >>]
            /\ tides = [p \in {1, 2} |-> << >>]
            /\ exc = [p \in {1, 2} |-> NoExc]
            /\ error = [p \in {1, 2} |-> NoExc]
            /\ result = [p \in {1, 2} |-> NoResult]
            /\ fs = [dirs |-> {output_path(sp[1]), output_path(sp[2])},
                     files |-> [f \in AllPaths |-> NoFile]]
            /\ twin = None
            /\ returned = [p \in {1, 2} |-> NoReturned]
            /\ fn = None
            /\ lb = None
            /\ vc = None

NextPar ==
    \/ \E p \in Procs : StepsToVecs(p)
    \/ \E p \in Procs : RadarGrid(p)
    \/ \E p \in Procs : CreateRasters(p)
    \/ \E p \in Procs : Topo(p)
    \/ \E p \in Procs : OpenRaster(p)
    \/ \E p \in Procs : CallTideModel(p)
    \/ \E p \in Procs : ExternalRaises(p)
    \/ \E p \in Procs : Propagate(p)

SpecPar == InitPar /\ [][NextPar]_vars

\* C6 (as claimed): every raster a computation reads was written by that
\* computation itself, whatever scratch paths the two computations were
\* given: no coarse geometry of the other burst reaches its tide estimate.
C6_Original ==
    \A p \in Procs : \A layer \in DOMAIN NoRasters :
        rasters[p][layer].by \in {0, p}

\* ==================================================== two runs, one input
\* cumulative_correction_luts as a function of what its collaborators hand
\* it: the tide model's fields go through solid_earth_tides and resize and
\* the result is summed with the three adapter LUTs.
compose(b, dop, bis, fm, g, how, set_enu) ==
    LET set_rdr == solid_earth_tides(b, set_enu, g.y, g.x,
                                     g.incidence_angle, g.heading_angle)
        out_shape == Shape(bis.data)
    IN  sum_luts(dop, bis, fm, <<resize(set_rdr[1], out_shape, how),
                                 resize(set_rdr[2], out_shape, how)>>)

NotRun == [error |-> "<not run>"]

\* Two runs are given the same burst, steps, adapter results and coarse
\* geometry; the tide model answers the first with t1 and the second with t2
InitTwin ==
    /\ \E how \in ResizeHows, t1 \in TideOutputs, t2 \in TideOutputs :
          \E dop \in AdapterLuts(200, 250, 1),
             bis \in {LUT2d(0, 0, 200, 250, Pattern(s, 10)) :
                         s \in {<<MaxDim, MaxDim>>, <<1, MaxDim>>}},
             fm \in {LUT2d(0, 0, 200, 250, Pattern(<<MaxDim, MaxDim>>, 20))},
             b \in {Burst2}, g \in Geometries(Burst2, <<1, 2>>) :
              twin = [burst |-> b, dop |-> dop, bis |-> bis, fm |-> fm,
                      geometry |-> g, how |-> how, t1 |-> t1, t2 |-> t2,
                      out1 |-> NotRun, out2 |-> NotRun]
    /\ pc = << >>
    /\ burst = << >>
    /\ rg_step = << >>
    /\ az_step = << >>
    /\ scratch_path = << >>
    /\ calls = << >>
    /\ geometrical_steering_doppler = << >>
    /\ bistatic_delay = << >>
    /\ az_fm_mismatch = << >>
    /\ rdr_grid = << >>
    /\ rasters = << >>
    /\ set_temp = << >>
    /\ tides = << >>
    /\ exc = << >>
    /\ error = << >>
    /\ result = << >>
    /\ returned = << >>
    /\ fn = None
    /\ lb = None
    /\ vc = None
    /\ fs = EmptyFs

RunFirst ==
    /\ twin.out1 = NotRun
    /\ twin' = [twin EXCEPT !.out1 =
                   compose(twin.burst, twin.dop, twin.bis, twin.fm,
                           twin.geometry, twin.how, TideFields(twin.t1))]
    /\ UNCHANGED <<inputs, adapters, pc, calls, rdr_grid, rasters, set_temp,
                   tides, exc, error, result, fs, returned, fn, lb, vc>>

RunSecond ==
    /\ twin.out2 = NotRun
    /\ twin' = [twin EXCEPT !.out2 =
                   compose(twin.burst, twin.dop, twin.bis, twin.fm,
                           twin.geometry, twin.how, TideFields(twin.t2))]
    /\ UNCHANGED <<inputs, adapters, pc, calls, rdr_grid, rasters, set_temp,
                   tides, exc, error, result, fs, returned, fn, lb, vc>>

NextTwin ==
    \/ RunFirst
    \/ RunSecond

SpecTwin == InitTwin /\ [][NextTwin]_vars

BothRun == twin.out1 # NotRun /\ twin.out2 # NotRun

\* C7: two runs that differ only in the east, north and up fields the tide
\* model returned end the same way (both return or both raise) and, when
\* they return, their azimuth LUTs are identical.
C7_AzimuthIgnoresTide ==
    BothRun =>
        /\ twin.out1.error = twin.out2.error
        /\ twin.out1.error = None => twin.out1.az_lut = twin.out2.az_lut

\* Both runs returned, on different tide fields, and their range LUTs differ
C7_Witness ==
    /\ BothRun
    /\ twin.t1 # twin.t2
    /\ twin.out1.error = None
    /\ twin.out2.error = None
    /\ twin.out1.rg_lut # twin.out2.rg_lut
    /\ twin.out1.az_lut = twin.out2.az_lut

\* =============================================== functions applied alone
\* SpecFn applies one function of the utilities to inputs of the kind its
\* callers hand it; fn holds the function's name, its arguments and, once
\* applied, what it returned or raised.

\* Source grids as solid_earth_tides builds them (lut.py:223-231), with
\* fewer nodes: latitudes flipped, longitudes as they are
SmallSteps == {10, 23}

src_grid(y0, x0, step, n_lat, n_lon) ==
    <<flip_coords(np_linspace(y0, y0 + step * n_lat, n_lat)),
      np_linspace(x0, x0 + step * n_lon, n_lon)>>

\* A tide field on such a grid, every node with a value of its own
NodeField(n_lat, n_lon, sign) ==
    [r \in 1..n_lat |-> [c \in 1..n_lon |-> sign * (100 * r + c)]]

\* Offsets (millidegrees from the first node) of the points asked for:
\* before the grid, on its first node, between nodes, on its last node
\* (step * n) and beyond it
Offsets(step, n) ==
    <<0 - 1, 0, 1, 7, step, step + 5, step * n - 1, step * n, step * n + 1>>

ResampleInputs ==
    { [name |-> "resample_set",
       geo_tide |-> NodeField(nl, nn, sign),
       pts_src |-> src_grid(1000, 2000, step, nl, nn),
       pts_dest |-> <<[k \in 1..Len(Offsets(step, nn)) |->
                          1000 + Offsets(step, nl)[j]],
                      [k \in 1..Len(Offsets(step, nn)) |->
                          2000 + Offsets(step, nn)[k]]>>,
       done |-> FALSE, out |-> << >>] :
      nl \in 2..MaxNodes, nn \in 2..MaxNodes, step \in SmallSteps,
      sign \in {1, 0 - 1}, j \in 1..9 }

ApplyResampleSet ==
    /\ fn.name = "resample_set"
    /\ ~fn.done
    /\ fn' = [fn EXCEPT !.done = TRUE,
                        !.out = resample_set(fn.geo_tide, fn.pts_src, fn.pts_dest)]
    /\ UNCHANGED <<inputs, adapters, pc, calls, rdr_grid, rasters, set_temp,
                   tides, exc, error, result, fs, twin, returned, lb, vc>>

\* Points of the coarse radar grid at which solid_earth_tides is applied,
\* as <<latitude, longitude>> offsets from the origin of the tide grid: its
\* four corner nodes, a point inside it and two points outside it
RadarPoints ==
    {<<0, 0>>, <<Y_STEP * LENGTH, X_STEP * WIDTH>>, <<0, X_STEP * WIDTH>>,
     <<Y_STEP * LENGTH, 0>>, <<300, 1000>>, <<0 - 1, 0>>, <<600, 100>>}

TideInputs ==
    { [name |-> "solid_earth_tides", burst |-> b, set_enu |-> t,
       lat_radar_grid |-> << <<tide_atr(b).Y_FIRST + q[1],
                               tide_atr(b).Y_FIRST + 300>> >>,
       lon_radar_grid |-> << <<tide_atr(b).X_FIRST + q[2],
                               tide_atr(b).X_FIRST + 1000>> >>,
       inc_angle |-> << inc >>, head_angle |-> << <<head, head>> >>,
       done |-> FALSE, pts_src |-> << >>, rdr_set |-> << >>, out |-> << >>] :
      b \in {Burst1, Burst2}, t \in TideOutputs, q \in RadarPoints,
      inc \in {<<0, 0>>, <<0, 90>>, <<90, 0>>}, head \in {0, 90, 180, 270} }

\* solid_earth_tides from the return of the tide model on: fn keeps the
\* source grid it built and the resampled east, north and up displacements
ApplySolidEarthTides ==
    /\ fn.name = "solid_earth_tides"
    /\ ~fn.done
    /\ LET pts_src == <<flip_coords(lat_geo_array(fn.burst)),
                        lon_geo_array(fn.burst)>>
           pts_dst == <<np_flatten(fn.lat_radar_grid),
                        np_flatten(fn.lon_radar_grid)>>
           shp == Shape(fn.lat_radar_grid)
           set_enu == TideFields(fn.set_enu)
       IN  fn' = [fn EXCEPT
                !.done = TRUE,
                !.pts_src = pts_src,
                !.rdr_set =
                    [e |-> np_reshape(resample_set(set_enu.e, pts_src, pts_dst), shp),
                     n |-> np_reshape(resample_set(set_enu.n, pts_src, pts_dst), shp),
                     u |-> np_reshape(resample_set(set_enu.u, pts_src, pts_dst), shp)],
                !.out = solid_earth_tides(fn.burst, set_enu, fn.lat_radar_grid,
                                          fn.lon_radar_grid, fn.inc_angle,
                                          fn.head_angle)]
    /\ UNCHANGED <<inputs, adapters, pc, calls, rdr_grid, rasters, set_temp,
                   tides, exc, error, result, fs, twin, returned, lb, vc>>

\* ------------------------------------------- helpers.get_burst_bbox
\* The burst database: rows of burst_id_map by burst_id_jpl
BurstDb ==
    [t064_iw1 |-> [epsg |-> 32611, xmin |-> 1, ymin |-> 2, xmax |-> 3, ymax |-> 4],
     t064_iw2 |-> [epsg |-> 32612, xmin |-> 5, ymin |-> 6, xmax |-> 7, ymax |-> 8]]

\* cursor.fetchone(): the first row of the query, or None when it has none
NoRow == [py |-> "None"]

fetchone(db, bid) == IF bid \in DOMAIN db THEN db[bid] ELSE NoRow

\* helpers.py:252-277.  burst_id is [str |-> TRUE, value |-> an ID] or
\* [str |-> FALSE, value |-> a list of IDs]; the outcome is what is
\* returned or the exception raised
get_burst_bbox(burst_id, db) ==
    LET burst_ids == IF burst_id.str THEN <<burst_id.value>> ELSE burst_id.value
        results == [i \in 1..Len(burst_ids) |-> fetchone(db, burst_ids[i])]
        bbox(row) == <<row.xmin, row.ymin, row.xmax, row.ymax>>
    IN  IF results = << >>
        THEN [raised |-> "ValueError", returned |-> << >>]
        ELSE IF Len(results) = 1
        THEN IF results[1] = NoRow
             THEN [raised |-> "TypeError", returned |-> << >>]
             ELSE [raised |-> None,
                   returned |-> <<results[1].epsg, bbox(results[1])>>]
        ELSE IF \E i \in 1..Len(results) : results[i] = NoRow
             THEN [raised |-> "TypeError", returned |-> << >>]
             ELSE [raised |-> None,
                   returned |-> <<[i \in 1..Len(results) |-> results[i].epsg],
                                  [i \in 1..Len(results) |-> bbox(results[i])]>>]

\* The burst IDs asked for: present and absent ones, alone and in lists
BurstIdArgs ==
    {[str |-> TRUE, value |-> id] : id \in {"t064_iw1", "t064_iw2", "t999_iw1"}}
    \cup {[str |-> FALSE, value |-> l] :
            l \in {<< >>, <<"t064_iw1">>, <<"t999_iw1">>,
                   <<"t064_iw1", "t064_iw2">>, <<"t064_iw1", "t999_iw1">>,
                   <<"t999_iw1", "t064_iw2">>}}

BboxInputs ==
    { [name |-> "get_burst_bbox", burst_id |-> a, db |-> BurstDb,
       done |-> FALSE, out |-> << >>] : a \in BurstIdArgs }

ApplyGetBurstBbox ==
    /\ fn.name = "get_burst_bbox"
    /\ ~fn.done
    /\ fn' = [fn EXCEPT !.done = TRUE,
                        !.out = get_burst_bbox(fn.burst_id, fn.db)]
    /\ UNCHANGED <<inputs, adapters, pc, calls, rdr_grid, rasters, set_temp,
                   tides, exc, error, result, fs, twin, returned, lb, vc>>

\* ------------------------------------------------- helpers.deep_update
\* A value of a runconfig loaded from YAML: a dict (items: its keys to
\* their values) or anything else (val: None or a string)
Leaf(v) == [isdict |-> FALSE, items |-> << >>, val |-> v]
Dict(f) == [isdict |-> TRUE, items |-> f, val |-> None]

Keys == {"groups", "dem_file"}

\* update.items() in the order of the keys in the YAML file
KeyOrder == <<"dem_file", "groups">>
items_of(d) == SelectSeq(KeyOrder, LAMBDA k : k \in DOMAIN d.items)

\* original[key] = value
setitem(original, key, value) ==
    Dict([k \in DOMAIN original.items \cup {key} |->
             IF k = key THEN value ELSE original.items[k]])

\* original.get(key, {})
get_or_empty(original, key) ==
    IF key \in DOMAIN original.items THEN original.items[key] ELSE Dict(<< >>)

\* helpers.py:98-105  deep_update: the loop over update.items() from the
\* keys still to visit, and the return.  original[key] = ... on None or a
\* string raises TypeError, original.get on them raises AttributeError.
RECURSIVE deep_update_from(_, _, _)
deep_update_from(original, update, keys) ==
    IF keys = << >> THEN [raised |-> None, returned |-> original]
    ELSE LET key == Head(keys)
             val == update.items[key]
         IN  IF val.isdict
             THEN IF ~original.isdict
                  THEN [raised |-> "AttributeError", returned |-> Leaf(None)]
                  ELSE LET sub == deep_update_from(get_or_empty(original, key),
                                                   val, items_of(val))
                       IN  IF sub.raised # None THEN sub
                           ELSE deep_update_from(
                                    setitem(original, key, sub.returned),
                                    update, Tail(keys))
             ELSE IF ~original.isdict
                  THEN [raised |-> "TypeError", returned |-> Leaf(None)]
                  ELSE deep_update_from(setitem(original, key, val),
                                        update, Tail(keys))

deep_update(original, update) ==
    deep_update_from(original, update, items_of(update))

\* Dicts whose values are taken from vals, over every set of keys
DictsOver(vals) == {Dict(f) : f \in UNION {[ks -> vals] : ks \in SUBSET Keys}}

\* The default runconfig and the user's: values None or a string, dicts
\* nested twice
DefaultCfgs == DictsOver({Leaf(None), Leaf("default")}
                         \cup DictsOver({Leaf(None), Leaf("default")}))
UserCfgs == DictsOver({Leaf(None), Leaf("user")}
                      \cup DictsOver({Leaf(None), Leaf("user")}))

DeepUpdateInputs ==
    { [name |-> "deep_update", original |-> o, update |-> u,
       done |-> FALSE, out |-> << >>] : o \in DefaultCfgs, u \in UserCfgs }

ApplyDeepUpdate ==
    /\ fn.name = "deep_update"
    /\ ~fn.done
    /\ fn' = [fn EXCEPT !.done = TRUE,
                        !.out = deep_update(fn.original, fn.update)]
    /\ UNCHANGED <<inputs, adapters, pc, calls, rdr_grid, rasters, set_temp,
                   tides, exc, error, result, fs, twin, returned, lb, vc>>

\* The burst IDs asked for in the application of get_burst_bbox
AskedIds ==
    IF fn.burst_id.str THEN {fn.burst_id.value}
    ELSE {fn.burst_id.value[i] : i \in 1..Len(fn.burst_id.value)}

\* C16 (as claimed): whenever a burst ID asked for has no row in the
\* database, get_burst_bbox raises ValueError and returns nothing.
C16_Original ==
    (fn.name = "get_burst_bbox" /\ fn.done
        /\ \E id \in AskedIds : id \notin DOMAIN fn.db)
    => fn.out.raised = "ValueError"

Resampled == fn.name = "resample_set" /\ fn.done
TideApplied == fn.name = "solid_earth_tides" /\ fn.done

Abs(x) == IF x < 0 THEN 0 - x ELSE x

\* The k-th point asked for, scaled to the numerators of axis a (1 the
\* latitudes, 2 the longitudes) of the source grid
Asked(a, k) ==
    fn.pts_dest[a][IF Len(fn.pts_dest[a]) = 1 THEN 1 ELSE k] * fn.pts_src[a].den

OutsideAxis(a, k) ==
    \/ \A i \in 1..Len(fn.pts_src[a].num) : Asked(a, k) < fn.pts_src[a].num[i]
    \/ \A i \in 1..Len(fn.pts_src[a].num) : Asked(a, k) > fn.pts_src[a].num[i]

\* Node i of axis a is as near to the k-th point as any node of the axis
Nearest(a, k, i) ==
    \A j \in 1..Len(fn.pts_src[a].num) :
        Abs(fn.pts_src[a].num[i] - Asked(a, k))
            <= Abs(fn.pts_src[a].num[j] - Asked(a, k))

\* C11: resample_set returns 0 for every point whose latitude or longitude
\* lies outside the source grid, and for every other point the value that
\* the interpolator was given for one of the nodes nearest to it.
C11_NearestOrZero ==
    Resampled =>
        \A k \in 1..Len(fn.out) :
            IF OutsideAxis(1, k) \/ OutsideAxis(2, k)
            THEN fn.out[k] = 0
            ELSE \E i \in 1..Len(fn.pts_src[1].num),
                    j \in 1..Len(fn.pts_src[2].num) :
                    /\ Nearest(1, k, i)
                    /\ Nearest(2, k, j)
                    /\ fn.out[k] = np_flipud(fn.geo_tide)[i][j]

\* C11 witness: one application returned both a zero fill for a point
\* outside the grid and a node value for a point strictly between nodes
C11_Witness ==
    /\ Resampled
    /\ \E k \in 1..Len(fn.out) : OutsideAxis(2, k) /\ fn.out[k] = 0
    /\ \E k \in 1..Len(fn.out) :
          /\ ~OutsideAxis(1, k) /\ ~OutsideAxis(2, k)
          /\ fn.out[k] # 0
          /\ \A j \in 1..Len(fn.pts_src[2].num) :
                fn.pts_src[2].num[j] # Asked(2, k)

\* The latitude vector before solid_earth_tides flipped it
Unflipped == np_flipud(fn.pts_src[1].num)

\* C12: a point placed on the r-th latitude of the unflipped latitude vector
\* and on the c-th longitude is given the tide model's value at row r,
\* column c, and flipping the field twice gives the field back.
C12_FlipsCancel ==
    /\ Resampled =>
        /\ np_flipud(np_flipud(fn.geo_tide)) = fn.geo_tide
        /\ \A k \in 1..Len(fn.out) :
              \A r \in 1..Len(fn.geo_tide), c \in 1..Len(fn.geo_tide[1]) :
                  (Asked(1, k) = Unflipped[r] /\ Asked(2, k) = fn.pts_src[2].num[c])
                      => fn.out[k] = fn.geo_tide[r][c]
    /\ TideApplied =>
        \A k \in 1..Len(fn.lat_radar_grid[1]) :
            \A r \in 1..LENGTH, c \in 1..WIDTH :
                (/\ fn.lat_radar_grid[1][k] * fn.pts_src[1].den = Unflipped[r]
                 /\ fn.lon_radar_grid[1][k] * fn.pts_src[2].den
                        = fn.pts_src[2].num[c])
                    => /\ fn.rdr_set.e[1][k] = TideField(fn.set_enu.e)[r][c]
                       /\ fn.rdr_set.n[1][k] = TideField(fn.set_enu.n)[r][c]
                       /\ fn.rdr_set.u[1][k] = TideField(fn.set_enu.u)[r][c]

\* C12 witness: a point on a node of the first row of the tide model's
\* field was given that node's value, which the mirrored row does not hold
C12_Witness ==
    /\ Resampled
    /\ \E k \in 1..Len(fn.out) : \E c \in 1..Len(fn.geo_tide[1]) :
          /\ Asked(1, k) = Unflipped[1]
          /\ Asked(2, k) = fn.pts_src[2].num[c]
          /\ fn.out[k] = fn.geo_tide[1][c]
          /\ fn.geo_tide[1][c] # fn.geo_tide[Len(fn.geo_tide)][c]

\* The cells of the radar grid of the application of solid_earth_tides
TideCells == {<<1, k>> : k \in 1..2}

\* C15 (as claimed): where the incidence angle is 0 the range component is
\* the resampled up displacement and the azimuth component is zero.
C15_Original ==
    TideApplied =>
        \A q \in TideCells :
            fn.inc_angle[q[1]][q[2]] = 0 =>
                /\ fn.out[1][q[1]][q[2]] = fn.rdr_set.u[q[1]][q[2]]
                /\ fn.out[2][q[1]][q[2]] = 0

\* C15 (amended): where the incidence angle is 0 the range component is the
\* resampled up displacement, whatever the east and north displacements and
\* the heading; the azimuth component is the projection of the east and
\* north displacements on the direction heading - 90.
C15_Nadir ==
    TideApplied =>
        \A q \in TideCells :
            fn.inc_angle[q[1]][q[2]] = 0 =>
                /\ fn.out[1][q[1]][q[2]] = fn.rdr_set.u[q[1]][q[2]]
                /\ fn.out[2][q[1]][q[2]] =
                      (0 - fn.rdr_set.e[q[1]][q[2]])
                          * SinDeg(fn.head_angle[q[1]][q[2]] - 90)
                      + fn.rdr_set.n[q[1]][q[2]]
                          * CosDeg(fn.head_angle[q[1]][q[2]] - 90)

\* C15 witness: a pixel of incidence 0 with east, north and up displacements
\* that all differ, where the range component is the up displacement
C15_Witness ==
    /\ TideApplied
    /\ \E q \in TideCells :
          /\ fn.inc_angle[q[1]][q[2]] = 0
          /\ fn.rdr_set.e[q[1]][q[2]] # 0
          /\ fn.rdr_set.n[q[1]][q[2]] # fn.rdr_set.u[q[1]][q[2]]
          /\ fn.rdr_set.e[q[1]][q[2]] # fn.rdr_set.u[q[1]][q[2]]
          /\ fn.out[1][q[1]][q[2]] = fn.rdr_set.u[q[1]][q[2]]
          /\ fn.out[2][q[1]][q[2]] # 0

\* C17 (as claimed): the latitude vector has 25 and the longitude vector
\* 100 nodes, node i (from 0) at the origin of the descriptor plus i steps
\* of 0.023 degrees.
C17_Original ==
    TideApplied =>
        LET atr == tide_atr(fn.burst)
            lats == Unflipped
            lons == fn.pts_src[2].num
        IN  /\ Len(lats) = 25
            /\ Len(lons) = 100
            /\ \A i \in 1..Len(lats) :
                  lats[i] = fn.pts_src[1].den * (atr.Y_FIRST + (i - 1) * 23)
            /\ \A i \in 1..Len(lons) :
                  lons[i] = fn.pts_src[2].den * (atr.X_FIRST + (i - 1) * 23)

\* The key paths of the runconfigs and the value a runconfig has at one
KeyPaths == {<<k>> : k \in Keys} \cup {<<j, k>> : j \in Keys, k \in Keys}
Missing == [isdict |-> FALSE, items |-> << >>, val |-> "<missing>"]

RECURSIVE ValueAt(_, _)
ValueAt(v, path) ==
    IF path = << >> THEN v
    ELSE IF v.isdict /\ Head(path) \in DOMAIN v.items
    THEN ValueAt(v.items[Head(path)], Tail(path))
    ELSE Missing

Prefixes(path) == {SubSeq(path, 1, n) : n \in 1..Len(path)}
IsLeaf(v) == ~v.isdict /\ v # Missing

DeepUpdated == fn.name = "deep_update" /\ fn.done

\* update holds a dict at a key path where original holds None or a string
DictOverNonDict ==
    \E p \in KeyPaths :
        /\ ValueAt(fn.update, p).isdict
        /\ IsLeaf(ValueAt(fn.original, p))

\* C22: deep_update succeeds for every pair of nested dicts, also when
\* update holds a dict where original holds None, a string or nothing; every
\* non-dict value of update is in the result at its key path, and every key
\* path of original that update does not mention keeps its value.
C22_Original ==
    DeepUpdated =>
        /\ fn.out.raised = None
        /\ \A p \in KeyPaths :
              IsLeaf(ValueAt(fn.update, p))
                => ValueAt(fn.out.returned, p) = ValueAt(fn.update, p)
        /\ \A p \in KeyPaths :
              (/\ IsLeaf(ValueAt(fn.original, p))
               /\ \A q \in Prefixes(p) : ValueAt(fn.update, q) = Missing)
                => ValueAt(fn.out.returned, p) = ValueAt(fn.original, p)

InitFn ==
    /\ fn \in ResampleInputs \cup TideInputs \cup BboxInputs
                \cup DeepUpdateInputs
    /\ twin = None
    /\ lb = None
    /\ vc = None
    /\ pc = << >>
    /\ burst = << >>
    /\ rg_step = << >>
    /\ az_step = << >>
    /\ scratch_path = << >>
    /\ calls = << >>
    /\ geometrical_steering_doppler = << >>
    /\ bistatic_delay = << >>
    /\ az_fm_mismatch = << >>
    /\ rdr_grid = << >>
    /\ rasters = << >>
    /\ set_temp = << >>
    /\ tides = << >>
    /\ exc = << >>
    /\ error = << >>
    /\ result = << >>
    /\ returned = << >>
    /\ fs = EmptyFs

NextFn ==
    \/ ApplyResampleSet
    \/ ApplySolidEarthTides
    \/ ApplyGetBurstBbox
    \/ ApplyDeepUpdate

SpecFn == InitFn /\ [][NextFn]_vars

\* ================================================== the same run, twice
\* The computation is run for a burst and then run again for the same
\* burst, steps and scratch path, in the file system the first run left.
\* Both runs have gone through the adapters, which returned the same LUTs.
RerunInvocations ==
    {[burst |-> Burst1, rg_step |-> 200, az_step |-> 250,
      scratch_path |-> "scratchA"],
     [burst |-> Burst2, rg_step |-> 100, az_step |-> 500,
      scratch_path |-> None]}

InitRerun ==
    \E i \in RerunInvocations : \E s \in {<<MaxDim, MaxDim>>, <<1, MaxDim>>} :
        /\ Entered([p \in {1, 2} |-> i], "waiting")
        /\ geometrical_steering_doppler =
              [p \in {1, 2} |-> LUT2d(0, 0, i.rg_step, i.az_step, Pattern(s, 1))]
        /\ bistatic_delay =
              [p \in {1, 2} |->
                  LUT2d(0, 0, i.rg_step, i.az_step, Pattern(<<MaxDim, MaxDim>>, 10))]
        /\ az_fm_mismatch =
              [p \in {1, 2} |->
                  LUT2d(0, 0, i.rg_step, i.az_step, Pattern(<<MaxDim, MaxDim>>, 20))]
        /\ fs = [dirs |-> {output_path(i.scratch_path)},
                 files |-> [f \in AllPaths |-> NoFile]]
        /\ twin = None
        /\ fn = None
        /\ lb = None
        /\ vc = None

\* A run is started: the first at once, the second when the first returned
Start(p) ==
    /\ pc[p] = "waiting"
    /\ \A q \in Procs : q < p => pc[q] = "done"
    /\ pc' = [pc EXCEPT ![p] = "steps_to_vecs"]
    /\ calls' = [calls EXCEPT ![p] = CallsBeforeRdr2geo(
                    [burst |-> burst[p], rg_step |-> rg_step[p],
                     az_step |-> az_step[p], scratch_path |-> scratch_path[p]])]
    /\ UNCHANGED <<inputs, adapters, rdr_grid, rasters, set_temp, tides, exc,
                   error, result, fs, twin, returned, fn, lb, vc>>

NextRerun ==
    \/ \E p \in Procs : Start(p)
    \/ \E p \in Procs : StepsToVecs(p)
    \/ \E p \in Procs : RadarGrid(p)
    \/ \E p \in Procs : CreateRasters(p)
    \/ \E p \in Procs : Topo(p)
    \/ \E p \in Procs : OpenRaster(p)
    \/ \E p \in Procs : CallTideModel(p)
    \/ \E p \in Procs : Resize(p)
    \/ \E p \in Procs : Sum(p)

SpecRerun == InitRerun /\ [][NextRerun]_vars

\* C14: a run reads from <scratch>/corrections only what its own topo
\* wrote there, whatever rasters an earlier run left, so that what it
\* returns is determined by its inputs and by what its collaborators handed
\* back; two runs on the same inputs whose collaborators handed back the
\* same return the same arrays and grid descriptors.
C14_Reproducible ==
    /\ \A p \in Procs : pc[p] = "done" =>
          /\ \A layer \in DOMAIN NoRasters : rasters[p][layer].by = p
          /\ rasters[p].lon.data = TopoOf(p).x
          /\ rasters[p].lat.data = TopoOf(p).y
          /\ rasters[p].inc_angle.data = TopoOf(p).incidence_angle
          /\ rasters[p].head_angle.data = TopoOf(p).heading_angle
    /\ (pc[1] = "done" /\ pc[2] = "done" /\ rdr_grid[1] = rdr_grid[2]
           /\ returned[1] = returned[2])
        => result[1] = result[2]

\* C14 witness: the second run returned the same as the first, with a tide
\* that is not zero, and the rasters the second run found were the first's
C14_Witness ==
    /\ pc[1] = "done"
    /\ pc[2] = "done"
    /\ returned[1] = returned[2]
    /\ result[1] = result[2]
    /\ \E q \in Cells(set_temp[2][1]) : set_temp[2][1][q[1]][q[2]] # 0

\* ==================================================== runconfig.load_bursts
\* lb is the run of load_bursts: the configuration and the SAFE files it was
\* given, the index of the SAFE file the loop is at, its lists, and how it
\* ended.  A SAFE file is [mode, orbit, iw]: its polarization mode, whether
\* an orbit file correlates to it, and the burst IDs of its three subswaths.

\* runconfig.py:161-170  mode_to_pols by the polarization mode of the file
mode_to_pols(safe_pol_mode) ==
    CASE safe_pol_mode = "SV" -> [co_pol |-> <<"VV">>]
      [] safe_pol_mode = "DV" ->
           [co_pol |-> <<"VV">>, cross_pol |-> <<"VH">>, dual_pol |-> <<"VV", "VH">>]
      [] safe_pol_mode = "SH" -> [co_pol |-> <<"HH">>]
      [] OTHER ->
           [co_pol |-> <<"HH">>, cross_pol |-> <<"HV">>, dual_pol |-> <<"HH", "HV">>]

\* runconfig.py:173-174  zip(cycle(pols), [1, 2, 3])
zip_list(pols) == [k \in 1..3 |-> <<pols[((k - 1) % Len(pols)) + 1], k>>]

\* s1_load_bursts(safe_file, orbit_path, i_subswath, pol): the bursts of a
\* subswath, each with the polarization asked for
s1_load_bursts(safe, i_safe, i_subswath, pol) ==
    [k \in 1..Len(safe.iw[i_subswath]) |->
        [burst_id |-> safe.iw[i_subswath][k], polarization |-> pol,
         safe |-> i_safe, index |-> k]]

\* runconfig.py:195-198  the bursts of a SAFE file in the order of the loops
RECURSIVE Concat(_)
Concat(seqs) == IF seqs = << >> THEN << >> ELSE Head(seqs) \o Concat(Tail(seqs))

bursts_of(safe, i_safe, pols) ==
    Concat([k \in 1..3 |->
              s1_load_bursts(safe, i_safe, zip_list(pols)[k][2], zip_list(pols)[k][1])])

InSeq(x, seq) == \E k \in 1..Len(seq) : seq[k] = x

\* runconfig.py:216-219  not_ref: the configuration of the radar grid
\* workflow has a reference_burst group, the others have none
not_ref(cfg) ==
    IF cfg.has_reference_burst THEN ~cfg.is_reference ELSE TRUE

\* runconfig.py:198-226  the loop over the bursts of a SAFE file; st holds
\* id_pols_found, burst_ids_found and bursts
RECURSIVE each_burst(_, _, _)
each_burst(cfg, todo, st) ==
    IF todo = << >> THEN st
    ELSE LET b == Head(todo)
             id_pol == <<b.burst_id, b.polarization>>
             burst_id_pol_exist == InSeq(id_pol, st.id_pols_found)
             found == IF burst_id_pol_exist THEN st.id_pols_found
                      ELSE Append(st.id_pols_found, id_pol)
         IN  IF ~InSeq(b.burst_id, cfg.burst_id)
             THEN each_burst(cfg, Tail(todo), st)
             ELSE IF not_ref(cfg) \/ ~burst_id_pol_exist
             THEN each_burst(cfg, Tail(todo),
                     [id_pols_found |-> found,
                      burst_ids_found |-> Append(st.burst_ids_found, b.burst_id),
                      bursts |-> Append(st.bursts, b)])
             ELSE each_burst(cfg, Tail(todo),
                     [st EXCEPT !.id_pols_found = found])

NoRaise == [type |-> None, msg |-> None, ids |-> {}]

\* runconfig.py:159-226  one pass of the loop over the SAFE files.
\* id_pols_found and burst_ids_found are set to empty lists in every pass.
ReadSafe ==
    /\ lb.pc = "loop"
    /\ lb.i <= Len(lb.safes)
    /\ LET safe == lb.safes[lb.i]
           pols_by_mode == mode_to_pols(safe.mode)
       IN  IF lb.cfg.polarization \notin DOMAIN pols_by_mode
           THEN lb' = [lb EXCEPT !.pc = "raised",
                          !.raised = [type |-> "KeyError",
                                      msg |-> lb.cfg.polarization, ids |-> {}]]
           ELSE IF ~safe.orbit
           THEN lb' = [lb EXCEPT !.pc = "raised",
                          !.raised = [type |-> "ValueError",
                                      msg |-> "No orbit file correlates to safe file",
                                      ids |-> {}]]
           ELSE LET st == each_burst(lb.cfg,
                              bursts_of(safe, lb.i, pols_by_mode[lb.cfg.polarization]),
                              [id_pols_found |-> << >>, burst_ids_found |-> << >>,
                               bursts |-> lb.bursts])
                IN  lb' = [lb EXCEPT !.i = lb.i + 1,
                              !.id_pols_found = st.id_pols_found,
                              !.burst_ids_found = st.burst_ids_found,
                              !.bursts = st.bursts]
    /\ UNCHANGED <<inputs, adapters, pc, calls, rdr_grid, rasters, set_temp,
                   tides, exc, error, result, fs, twin, returned, fn, vc>>

SeqSet(seq) == {seq[k] : k \in 1..Len(seq)}

\* runconfig.py:228-243  after the loop: the checks and the return
Finish ==
    /\ lb.pc = "loop"
    /\ lb.i > Len(lb.safes)
    /\ LET burst_ids_found == SeqSet(lb.burst_ids_found)
           cfg_burst_ids == SeqSet(lb.cfg.burst_id)
           unaccounted_bursts == burst_ids_found \ cfg_burst_ids
       IN  IF lb.bursts = << >>
           THEN lb' = [lb EXCEPT !.pc = "raised",
                    !.raised = [type |-> "ValueError",
                                msg |-> "Could not find any of the burst IDs in the provided safe files",
                                ids |-> {}]]
           ELSE IF burst_ids_found # cfg_burst_ids
           THEN lb' = [lb EXCEPT !.pc = "raised",
                    !.raised = [type |-> "ValueError",
                                msg |-> "Following burst ID(s) not found in provided safe files",
                                ids |-> unaccounted_bursts]]
           ELSE lb' = [lb EXCEPT !.pc = "returned"]
    /\ UNCHANGED <<inputs, adapters, pc, calls, rdr_grid, rasters, set_temp,
                   tides, exc, error, result, fs, twin, returned, fn, vc>>

\* The SAFE files: with one burst wanted or not, with bursts in two
\* subswaths, without an orbit file
SafeFiles ==
    {[mode |-> "DV", orbit |-> TRUE, iw |-> << <<"t064_iw1">>, << >>, << >> >>],
     [mode |-> "SV", orbit |-> TRUE, iw |-> << <<"t064_iw1">>, <<"t064_iw2">>, << >> >>],
     [mode |-> "DV", orbit |-> TRUE, iw |-> << << >>, <<"t064_iw2">>, << >> >>],
     [mode |-> "DV", orbit |-> TRUE, iw |-> << <<"t071_iw1">>, << >>, << >> >>],
     [mode |-> "DV", orbit |-> TRUE,
      iw |-> << <<"t064_iw1">>, << >>, <<"t064_iw3">> >>],
     [mode |-> "DV", orbit |-> FALSE, iw |-> << <<"t064_iw1">>, << >>, << >> >>]}

RECURSIVE SeqsUpTo(_, _)
SeqsUpTo(S, n) ==
    IF n = 0 THEN {<< >>}
    ELSE SeqsUpTo(S, n - 1)
         \cup {Append(q, x) : q \in {t \in SeqsUpTo(S, n - 1) : Len(t) = n - 1},
                              x \in S}

Configs ==
    {[burst_id |-> ids, polarization |-> pol,
      has_reference_burst |-> ref[1], is_reference |-> ref[2]] :
        ids \in {<<"t064_iw1">>, <<"t064_iw1", "t064_iw2">>},
        pol \in {"co_pol", "dual_pol"},
        ref \in {<<FALSE, FALSE>>, <<TRUE, TRUE>>, <<TRUE, FALSE>>}}

InitLoad ==
    /\ \E cfg \in Configs, safes \in SeqsUpTo(SafeFiles, MaxSafe) :
          lb = [cfg |-> cfg, safes |-> safes, i |-> 1, bursts |-> << >>,
                id_pols_found |-> << >>, burst_ids_found |-> << >>,
                pc |-> "loop", raised |-> NoRaise]
    /\ vc = None
    /\ twin = None
    /\ fn = None
    /\ pc = << >>
    /\ burst = << >>
    /\ rg_step = << >>
    /\ az_step = << >>
    /\ scratch_path = << >>
    /\ calls = << >>
    /\ geometrical_steering_doppler = << >>
    /\ bistatic_delay = << >>
    /\ az_fm_mismatch = << >>
    /\ rdr_grid = << >>
    /\ rasters = << >>
    /\ set_temp = << >>
    /\ tides = << >>
    /\ exc = << >>
    /\ error = << >>
    /\ result = << >>
    /\ returned = << >>
    /\ fs = EmptyFs

NextLoad ==
    \/ ReadSafe
    \/ Finish

SpecLoad == InitLoad /\ [][NextLoad]_vars

\* Every SAFE file of the run has an orbit file and a polarization list for
\* the polarization of the configuration
Readable ==
    \A k \in 1..Len(lb.safes) :
        /\ lb.safes[k].orbit
        /\ lb.cfg.polarization \in DOMAIN mode_to_pols(lb.safes[k].mode)

\* The bursts of every SAFE file of the run, in the order of the loops
AllBursts ==
    Concat([k \in 1..Len(lb.safes) |->
              IF lb.cfg.polarization \in DOMAIN mode_to_pols(lb.safes[k].mode)
              THEN bursts_of(lb.safes[k], k,
                             mode_to_pols(lb.safes[k].mode)[lb.cfg.polarization])
              ELSE << >>])

CfgIds == SeqSet(lb.cfg.burst_id)

Matching == SelectSeq(AllBursts, LAMBDA b : b.burst_id \in CfgIds)

FoundAcross == {Matching[k].burst_id : k \in 1..Len(Matching)}

\* C19: when every SAFE file can be read, load_bursts returns the burst list
\* exactly when the burst IDs found across all SAFE files are the burst IDs
\* of the configuration, for any number and order of SAFE files; otherwise
\* it raises ValueError.
C19_Original ==
    (lb.pc \in {"returned", "raised"} /\ Readable) =>
        /\ (lb.pc = "returned") <=> (FoundAcross = CfgIds)
        /\ lb.pc = "raised" => lb.raised.type = "ValueError"

\* C20: for a reference burst the returned list holds no two bursts with the
\* same (burst_id, polarization), whatever the number of SAFE files; for
\* any other configuration every matching burst is in the returned list.
C20_Original ==
    lb.pc = "returned" =>
        /\ ~not_ref(lb.cfg) =>
              \A j, k \in 1..Len(lb.bursts) :
                  (lb.bursts[j].burst_id = lb.bursts[k].burst_id
                     /\ lb.bursts[j].polarization = lb.bursts[k].polarization)
                  => j = k
        /\ not_ref(lb.cfg) => lb.bursts = Matching

\* C21: with 'dual-pol' every subswath is read for both polarizations of the
\* mode of the SAFE file, so every configured burst ID a SAFE file holds is
\* in the returned list in both polarizations, whichever subswath it lies in.
C21_Original ==
    (lb.pc = "returned" /\ lb.cfg.polarization = "dual_pol") =>
        \A k \in 1..Len(lb.safes), s \in 1..3 :
            \A j \in 1..Len(lb.safes[k].iw[s]) :
                lb.safes[k].iw[s][j] \in CfgIds =>
                    \A p \in SeqSet(mode_to_pols(lb.safes[k].mode).dual_pol) :
                        \E b \in 1..Len(lb.bursts) :
                            /\ lb.bursts[b].burst_id = lb.safes[k].iw[s][j]
                            /\ lb.bursts[b].polarization = p

\* ------------------------------------------------ validate_cslc (script)
\* The messages the script prints; arg is the metadata key of the message
\* that names one
Msg(text) == [text |-> text, arg |-> None]

ProductPassed == Msg("All CSLC product checks have passed")
MetadataPassed == Msg("All CSLC metadata checks have passed")

\* validate_cslc.py:43, 47, 62, 68
ProductErrors ==
    {Msg("ERROR reference CSLC product not found"),
     Msg("ERROR secondary CSLC product not found"),
     Msg("ERROR Number of bands in reference CSLC differs"),
     Msg("ERROR Reference geo transform array differs")}

\* validate_cslc.py:94, 98, 112, 129
MetadataValueError(k) == [text |-> "ERROR the content of metadata key", arg |-> k]
MetadataErrors ==
    {Msg("ERROR reference CSLC metadata not found"),
     Msg("ERROR CSLC metadata not found"),
     Msg("ERROR different number of metadata keys")}
    \cup {MetadataValueError(k) : k \in {"burst_id", "pol"}}

NotVc == UNCHANGED <<inputs, adapters, pc, calls, rdr_grid, rasters, set_temp,
                     tides, exc, error, result, fs, twin, returned, fn, lb>>

\* validate_cslc.py:42-48  compare_cslc_products: the files exist
ProductsExist ==
    /\ vc.pc = "products"
    /\ IF ~vc.ref_product.exists
       THEN vc' = [vc EXCEPT !.pc = "products_returned",
                     !.out = Append(vc.out, Msg("ERROR reference CSLC product not found"))]
       ELSE IF ~vc.sec_product.exists
       THEN vc' = [vc EXCEPT !.pc = "products_returned",
                     !.out = Append(vc.out, Msg("ERROR secondary CSLC product not found"))]
       ELSE vc' = [vc EXCEPT !.pc = "bands"]
    /\ NotVc

\* validate_cslc.py:60-64
CompareBands ==
    /\ vc.pc = "bands"
    /\ IF vc.ref_product.nbands # vc.sec_product.nbands
       THEN vc' = [vc EXCEPT !.pc = "products_returned",
                     !.out = vc.out \o <<Msg("Comparing CSLC number of bands ..."),
                               Msg("ERROR Number of bands in reference CSLC differs")>>]
       ELSE vc' = [vc EXCEPT !.pc = "geotransform",
                     !.out = Append(vc.out, Msg("Comparing CSLC number of bands ..."))]
    /\ NotVc

\* validate_cslc.py:66-70
CompareGeotransform ==
    /\ vc.pc = "geotransform"
    /\ IF vc.ref_product.geotransform # vc.sec_product.geotransform
       THEN vc' = [vc EXCEPT !.pc = "products_returned",
                     !.out = vc.out \o <<Msg("Comparing geo transform arrays ..."),
                               Msg("ERROR Reference geo transform array differs")>>]
       ELSE vc' = [vc EXCEPT !.pc = "amplitude",
                     !.out = Append(vc.out, Msg("Comparing geo transform arrays ..."))]
    /\ NotVc

\* validate_cslc.py:73-77  slc_sec.image: a numpy array has no attribute
\* image, so the comparison of the values ends with AttributeError and the
\* script with it
CompareAmplitude ==
    /\ vc.pc = "amplitude"
    /\ vc' = [vc EXCEPT !.pc = "raised", !.raised = "AttributeError"]
    /\ NotVc

\* validate_cslc.py:138-139  __main__: after compare_cslc_products returned
PrintProductPassed ==
    /\ vc.pc = "products_returned"
    /\ vc' = [vc EXCEPT !.pc = "metadata",
                 !.out = Append(vc.out, ProductPassed)]
    /\ NotVc

\* validate_cslc.py:93-99  compare_cslc_metadata: the files exist
MetadataExist ==
    /\ vc.pc = "metadata"
    /\ IF ~vc.ref_metadata.exists
       THEN vc' = [vc EXCEPT !.pc = "metadata_returned",
                     !.out = Append(vc.out, Msg("ERROR reference CSLC metadata not found"))]
       ELSE IF ~vc.sec_metadata.exists
       THEN vc' = [vc EXCEPT !.pc = "metadata_returned",
                     !.out = Append(vc.out, Msg("ERROR CSLC metadata not found"))]
       ELSE vc' = [vc EXCEPT !.pc = "keys"]
    /\ NotVc

\* validate_cslc.py:110-113
CompareKeyCount ==
    /\ vc.pc = "keys"
    /\ LET metadata_keys_ref == DOMAIN vc.ref_metadata.json
           metadata_keys_sec == DOMAIN vc.sec_metadata.json
       IN  IF Cardinality(metadata_keys_ref) # Cardinality(metadata_keys_sec)
           THEN vc' = [vc EXCEPT !.pc = "metadata_returned",
                         !.out = vc.out \o <<Msg("Compare number of metadata keys"),
                                   Msg("ERROR different number of metadata keys")>>]
           ELSE vc' = [vc EXCEPT !.pc = "extra",
                         !.out = Append(vc.out, Msg("Compare number of metadata keys"))]
    /\ NotVc

\* validate_cslc.py:116-124  the keys of one file that the other lacks
ExtraKeys ==
    /\ vc.pc = "extra"
    /\ LET set_ref_minus_sec == DOMAIN vc.ref_metadata.json \ DOMAIN vc.sec_metadata.json
           set_sec_minus_ref == DOMAIN vc.sec_metadata.json \ DOMAIN vc.ref_metadata.json
       IN  IF set_ref_minus_sec # {}
           THEN vc' = [vc EXCEPT !.pc = "metadata_returned",
                         !.out = Append(vc.out,
                            Msg("Reference CSLC metadata has extra entries with keys"))]
           ELSE IF set_sec_minus_ref # {}
           THEN vc' = [vc EXCEPT !.pc = "values",
                         !.out = Append(vc.out,
                            Msg("Secondary CSLC metadata has extra entries with keys"))]
           ELSE vc' = [vc EXCEPT !.pc = "values"]
    /\ NotVc

\* The keys of a metadata file in the order of the file
MetadataKeyOrder == <<"burst_id", "pol">>

\* validate_cslc.py:127-131  one ERROR message for every key whose values
\* differ
CompareValues ==
    /\ vc.pc = "values"
    /\ LET items == SelectSeq(MetadataKeyOrder,
                        LAMBDA k : k \in DOMAIN vc.ref_metadata.json)
           differ == SelectSeq(items,
                        LAMBDA k : vc.sec_metadata.json[k] # vc.ref_metadata.json[k])
       IN  vc' = [vc EXCEPT !.pc = "metadata_returned",
                     !.out = vc.out \o [i \in 1..Len(differ) |->
                                          MetadataValueError(differ[i])]]
    /\ NotVc

\* validate_cslc.py:142-143  __main__: after compare_cslc_metadata returned
PrintMetadataPassed ==
    /\ vc.pc = "metadata_returned"
    /\ vc' = [vc EXCEPT !.pc = "exit",
                 !.out = Append(vc.out, MetadataPassed)]
    /\ NotVc

\* The CSLC products and metadata files the script is given
Products ==
    {[exists |-> e, nbands |-> n, geotransform |-> g] :
        e \in BOOLEAN, n \in {1, 2}, g \in {"gt_a", "gt_b"}}
MetadataFiles ==
    {[exists |-> e, json |-> j] :
        e \in BOOLEAN,
        j \in UNION {[ks -> {"v1", "v2"}] : ks \in SUBSET {"burst_id", "pol"}}}

InitValidate ==
    /\ \E rp \in {p \in Products : p.nbands = 1 /\ p.geotransform = "gt_a"},
          sp \in Products,
          rm \in MetadataFiles,
          sm \in MetadataFiles :
          vc = [ref_product |-> rp, sec_product |-> sp,
                ref_metadata |-> rm, sec_metadata |-> sm,
                pc |-> "products", out |-> << >>, raised |-> None]
    /\ lb = None
    /\ twin = None
    /\ fn = None
    /\ pc = << >>
    /\ burst = << >>
    /\ rg_step = << >>
    /\ az_step = << >>
    /\ scratch_path = << >>
    /\ calls = << >>
    /\ geometrical_steering_doppler = << >>
    /\ bistatic_delay = << >>
    /\ az_fm_mismatch = << >>
    /\ rdr_grid = << >>
    /\ rasters = << >>
    /\ set_temp = << >>
    /\ tides = << >>
    /\ exc = << >>
    /\ error = << >>
    /\ result = << >>
    /\ returned = << >>
    /\ fs = EmptyFs

NextValidate ==
    \/ ProductsExist
    \/ CompareBands
    \/ CompareGeotransform
    \/ CompareAmplitude
    \/ PrintProductPassed
    \/ MetadataExist
    \/ CompareKeyCount
    \/ ExtraKeys
    \/ CompareValues
    \/ PrintMetadataPassed

SpecValidate == InitValidate /\ [][NextValidate]_vars

\* The positions of the output at which a message of a set is printed
PrintedAt(msgs) == {i \in 1..Len(vc.out) : vc.out[i] \in msgs}

\* C23: 'All CSLC product checks have passed' is never printed after an
\* ERROR message of the comparison of the products, and 'All CSLC metadata
\* checks have passed' never after an ERROR message of the comparison of
\* the metadata, in the same run.
C23_Original ==
    /\ \A j \in PrintedAt({ProductPassed}) :
          \A i \in PrintedAt(ProductErrors) : ~(i < j)
    /\ \A j \in PrintedAt({MetadataPassed}) :
          \A i \in PrintedAt(MetadataErrors) : ~(i < j)

\* The paths of the file system the computation p created or wrote
WrittenBy(p) == {f \in AllPaths : fs.files[f].by = p}

\* C24: the coarse rasters are written under <scratch_path>/corrections of
\* the caller, and a computation without a scratch directory (scratch_path
\* None) creates no directory and writes no file under a path that starts
\* with the text 'None'.
C24_Original ==
    \A p \in Procs :
        /\ scratch_path[p] # None =>
              \A f \in WrittenBy(p) :
                  SubSeq(f, 1, 2) = <<scratch_path[p], "corrections">>
        /\ scratch_path[p] = None =>
              /\ \A d \in fs.dirs : Head(d) # "None"
              /\ \A f \in WrittenBy(p) : Head(f) # "None"

====
